---------------------------- MODULE Spec2Model ----------------------------
(***************************************************************************)
(* Model of the BudgetMaster expense / budget / savings tracker.           *)
(*                                                                         *)
(*   - utils/helpers.ts          aggregation, progress, rolling summary    *)
(*   - context/AppContext.tsx    the application state and its updaters    *)
(*   - components/savings/*      goal form, funding form, goal list        *)
(*                                                                         *)
(* Amounts are JavaScript numbers in the source.  They are modelled as     *)
(* integers (whole currency units) with exact arithmetic; a quotient is    *)
(* kept as a fraction [num, den] so that no rounding is introduced by the  *)
(* model.  NaN, the one non-numeric value the parsers can produce, is      *)
(* modelled explicitly.  Strings that the code inspects character by       *)
(* character (dates and month keys, through startsWith) are sequences of   *)
(* one-character strings.                                                  *)
(***************************************************************************)
EXTENDS Integers, Sequences, FiniteSets, TLC

VARIABLES
    \* inputs and result of one call of a pure helper (utils/helpers.ts)
    expenses,        \* Expense[] argument
    month,           \* month key argument
    budget,          \* Budget argument
    now,             \* the value `new Date()` returns: [y, m (0..11), d]
    result,          \* [op |-> name of the helper called, val |-> its return value]
    \* AppContext state and the savings page (SavingsGoalList and its dialogs)
    user,            \* state.user
    savingsGoals,    \* state.savingsGoals
    nextId,          \* ids handed out so far (uuidv4 is modelled as a fresh id)
    pending,         \* requests awaiting the reply of the persistence service
    showAddGoalForm, \* SavingsGoalList state
    editingGoal,     \* SavingsGoalList state: the goal passed to the goal form
    fundingGoal,     \* SavingsGoalList state: the goal passed to the funding form
    errors,          \* SavingsGoalForm state: the validation errors shown
    amount,          \* AddFundsForm state: the text of the amount field
    error,           \* AddFundsForm state: the error message
    \* the expenses page (ExpenseList, ExpenseForm) and the budget page
    \* (BudgetOverview, BudgetForm)
    showAddExpense,  \* ExpenseList state
    editingExpense,  \* ExpenseList state: the expense passed to the expense form
    budgets,         \* state.budgets
    showBudgetForm,  \* BudgetOverview state
    totalBudget,     \* BudgetForm state: the text of the total field
    categoryBudgets, \* BudgetForm state: the text of each category field
    \* App.tsx and the authentication form
    activePage,      \* AppContent state
    isLogin,         \* AuthForm state: sign in (TRUE) or sign up
    authError,       \* AuthForm state: the message shown, "" when none
    loading,         \* AuthForm state
    authCalls,       \* sign-in / sign-up calls awaiting their reply
    authOutcome      \* how the latest finished submit ended, and whether it called onClose

helperVars  == <<expenses, month, budget, now, result>>
savingsVars == <<user, savingsGoals, nextId, pending, showAddGoalForm,
                 editingGoal, fundingGoal, errors, amount, error>>
authVars == <<activePage, isLogin, authError, loading, authCalls, authOutcome>>
pageVars == <<showAddExpense, editingExpense, budgets, showBudgetForm,
              totalBudget, categoryBudgets, authVars>>
vars == <<expenses, month, budget, now, result, user, savingsGoals, nextId,
          pending, showAddGoalForm, editingGoal, fundingGoal, errors,
          amount, error, showAddExpense, editingExpense, budgets, showBudgetForm,
          totalBudget, categoryBudgets, activePage, isLogin, authError, loading,
          authCalls, authOutcome>>

NULL == "null"

(***************************************************************************)
(* Bounds of the model.                                                    *)
(***************************************************************************)
MaxExpenses == 3        \* length of the expense collections passed to a helper
MaxSummaryExpenses == 2 \* same, for the rolling summary (every date is tried)
MaxGoals == 1           \* savings goals created in one run
MaxPending == 1         \* requests in flight at the persistence service

(***************************************************************************)
(* Strings and dates.                                                      *)
(***************************************************************************)
Digits == <<"0", "1", "2", "3", "4", "5", "6", "7", "8", "9">>

Digit(n) == Digits[n + 1]

\* date-fns format tokens 'MM' / 'dd': two digits, zero padded
Fmt2(n) == <<Digit(n \div 10), Digit(n % 10)>>

\* date-fns format token 'yyyy': four digits, zero padded
Fmt4(y) == <<Digit(y \div 1000), Digit((y \div 100) % 10),
             Digit((y \div 10) % 10), Digit(y % 10)>>

\* format(date, 'yyyy-MM'); date.m is JavaScript's month, 0..11
FormatYearMonth(date) == Fmt4(date.y) \o <<"-">> \o Fmt2(date.m + 1)

\* format(date, 'yyyy-MM-dd')
FormatDate(date) == FormatYearMonth(date) \o <<"-">> \o Fmt2(date.d)

\* String.prototype.startsWith
startsWith(s, prefix) ==
    /\ Len(prefix) <= Len(s)
    /\ SubSeq(s, 1, Len(prefix)) = prefix

\* an ISO date string / a canonical month key, written with calendar numbers
IsoDate(y, m, d) == FormatDate([y |-> y, m |-> m - 1, d |-> d])
MonthKey(y, m) == FormatYearMonth([y |-> y, m |-> m - 1, d |-> 1])

(***************************************************************************)
(* utils/helpers.ts: aggregation                                           *)
(***************************************************************************)
filterExpensesByMonth_SameMonth(es, mk) ==
    SelectSeq(es, LAMBDA e : SubSeq(e.date, 1, 7) = mk)

filterExpensesByMonth_YearOnly(es, mk) ==
    SelectSeq(es, LAMBDA e : startsWith(e.date, SubSeq(mk, 1, IF Len(mk) < 4 THEN Len(mk) ELSE 4)))

\* expenses.filter(expense => expense.date.startsWith(month))
filterExpensesByMonth(es, mk) ==
    SelectSeq(es, LAMBDA e : startsWith(e.date, mk))

\* list.reduce((total, expense) => total + expense.amount, init)
RECURSIVE ReduceAmount(_, _)
ReduceAmount(list, total) ==
    IF list = <<>> THEN total
    ELSE ReduceAmount(Tail(list), total + Head(list).amount)

calculateMonthlyTotal_NoFilter(es, mk) == ReduceAmount(es, 0)

calculateMonthlyTotal(es, mk) ==
    ReduceAmount(filterExpensesByMonth(es, mk), 0)

\* One step of the forEach body: `if (!result[c]) result[c] = 0;
\* result[c] += amount`.  A JavaScript object is a function on its keys.
AddToCategory(acc, e) ==
    LET c == e.category
        cleared == IF c \notin DOMAIN acc \/ acc[c] = 0
                   THEN [k \in DOMAIN acc \cup {c} |-> IF k = c THEN 0 ELSE acc[k]]
                   ELSE acc
    IN  [cleared EXCEPT ![c] = @ + e.amount]

RECURSIVE GroupByCategory(_, _)
GroupByCategory(list, acc) ==
    IF list = <<>> THEN acc
    ELSE GroupByCategory(Tail(list), AddToCategory(acc, Head(list)))

EmptyObject == [k \in {} |-> 0]

calculateExpensesByCategory_Overwrite(es, mk) ==
    LET list == filterExpensesByMonth(es, mk)
    IN  [c \in {list[i].category : i \in 1..Len(list)} |->
            LET own == SelectSeq(list, LAMBDA e : e.category = c)
            IN  own[Len(own)].amount]

calculateExpensesByCategory_AllMonths(es, mk) ==
    GroupByCategory(es, EmptyObject)

calculateExpensesByCategory(es, mk) ==
    GroupByCategory(filterExpensesByMonth(es, mk), EmptyObject)

getCurrentBudget_AnyMonth(bs, currentMonth, uuid) ==
    IF bs # <<>> THEN bs[1]
    ELSE [id |-> uuid, month |-> currentMonth, categories |-> EmptyObject,
          totalBudget |-> 0]

\* budgets.find(b => b.month === currentMonth) on the list bs, else a default budget whose
\* id is crypto.randomUUID(): the value drawn is the argument uuid
getCurrentBudget(bs, currentMonth, uuid) ==
    LET found == { i \in 1..Len(bs) : bs[i].month = currentMonth }
    IN  IF found # {}
        THEN bs[CHOOSE i \in found : \A j \in found : i <= j]
        ELSE [id |-> uuid, month |-> currentMonth, categories |-> EmptyObject,
              totalBudget |-> 0]

(***************************************************************************)
(* utils/helpers.ts: progress.  A quotient a / b * 100 is the fraction     *)
(* [num |-> a * 100, den |-> b]; the literal 0 is [num |-> 0, den |-> 1].  *)
(***************************************************************************)
Ratio(a, b) == [num |-> a * 100, den |-> b]
Zero == [num |-> 0, den |-> 1]

calculateBudgetProgress_Clamped(b, es) ==
    LET monthlyTotal == calculateMonthlyTotal(es, b.month)
    IN  IF b.totalBudget > 0
        THEN (IF monthlyTotal > b.totalBudget THEN Ratio(1, 1)
              ELSE Ratio(monthlyTotal, b.totalBudget))
        ELSE Zero

calculateBudgetProgress_Remaining(b, es) ==
    LET monthlyTotal == calculateMonthlyTotal(es, b.month)
    IN  IF b.totalBudget > 0
        THEN Ratio(b.totalBudget - monthlyTotal, b.totalBudget)
        ELSE Zero

calculateBudgetProgress(b, es) ==
    LET monthlyTotal == calculateMonthlyTotal(es, b.month)
    IN  IF b.totalBudget > 0 THEN Ratio(monthlyTotal, b.totalBudget) ELSE Zero

calculateCategoryBudgetProgress_TotalLimit(b, es, category) ==
    LET categoryExpenses ==
            ReduceAmount(SelectSeq(filterExpensesByMonth(es, b.month),
                                   LAMBDA e : e.category = category), 0)
    IN  IF b.totalBudget > 0 THEN Ratio(categoryExpenses, b.totalBudget) ELSE Zero

\* budget.categories[category] || 0: a missing key reads as undefined
calculateCategoryBudgetProgress(b, es, category) ==
    LET categoryBudget ==
            IF category \in DOMAIN b.categories /\ b.categories[category] # 0
            THEN b.categories[category] ELSE 0
        categoryExpenses ==
            ReduceAmount(SelectSeq(filterExpensesByMonth(es, b.month),
                                   LAMBDA e : e.category = category), 0)
    IN  IF categoryBudget > 0 THEN Ratio(categoryExpenses, categoryBudget) ELSE Zero

calculateSavingsProgress_Remaining(goal) ==
    IF goal.targetAmount > 0
    THEN Ratio(goal.targetAmount - goal.currentAmount, goal.targetAmount)
    ELSE Zero

calculateSavingsProgress(goal) ==
    IF goal.targetAmount > 0 THEN Ratio(goal.currentAmount, goal.targetAmount)
    ELSE Zero

(***************************************************************************)
(* utils/helpers.ts: rolling summary.  A Date is [y, m, d] with m the      *)
(* JavaScript month 0..11 (the time of day plays no part).                 *)
(***************************************************************************)
IsLeapYear(y) == (y % 4 = 0 /\ y % 100 # 0) \/ y % 400 = 0

DaysInMonth(y, m) ==
    IF m = 1 THEN (IF IsLeapYear(y) THEN 29 ELSE 28)
    ELSE IF m \in {3, 5, 8, 10} THEN 30 ELSE 31

\* Date.prototype.setMonth(mv): the year and month are taken from mv (which
\* may be negative), the day of the month is kept, and a day past the end of
\* that month runs over into the following month (ECMAScript MakeDay).
setMonth(date, mv) ==
    LET y2 == date.y + (mv \div 12)
        m2 == mv % 12
        dim == DaysInMonth(y2, m2)
    IN  IF date.d <= dim THEN [y |-> y2, m |-> m2, d |-> date.d]
        ELSE IF m2 = 11 THEN [y |-> y2 + 1, m |-> 0, d |-> date.d - dim]
        ELSE [y |-> y2, m |-> m2 + 1, d |-> date.d - dim]

\* the number of iterations of the loop `for (let i = 0; i < 6; i++)`
SummaryMonths == 6

\* the MonthlyTotal pushed by iteration i of the loop
SummaryEntry_UnfilteredCategories(es, currentDate, i) ==
    LET date == setMonth(currentDate, currentDate.m - i)
        monthStr == FormatYearMonth(date)
        monthlyExpenses == filterExpensesByMonth(es, monthStr)
    IN  [month |-> monthStr,
         total |-> ReduceAmount(monthlyExpenses, 0),
         categories |-> GroupByCategory(es, EmptyObject)]

SummaryEntry(es, currentDate, i) ==
    LET date == setMonth(currentDate, currentDate.m - i)
        monthStr == FormatYearMonth(date)
        monthlyExpenses == filterExpensesByMonth(es, monthStr)
    IN  [month |-> monthStr,
         total |-> ReduceAmount(monthlyExpenses, 0),
         categories |-> GroupByCategory(monthlyExpenses, EmptyObject)]

RECURSIVE SummaryLoop(_, _, _, _)
SummaryLoop(es, currentDate, i, acc) ==
    IF i < SummaryMonths
    THEN SummaryLoop(es, currentDate, i + 1, Append(acc, SummaryEntry(es, currentDate, i)))
    ELSE acc

\* Array.prototype.reverse
Reverse(list) == [i \in 1..Len(list) |-> list[Len(list) + 1 - i]]

getLastSixMonthsSummary_SkipEmpty(es, currentDate) ==
    SelectSeq(Reverse(SummaryLoop(es, currentDate, 0, <<>>)),
              LAMBDA t : filterExpensesByMonth(es, t.month) # <<>>)

getLastSixMonthsSummary_NoReverse(es, currentDate) ==
    SummaryLoop(es, currentDate, 0, <<>>)

\* getLastSixMonthsSummary(expenses), with the value of `new Date()` made an
\* argument
getLastSixMonthsSummary(es, currentDate) ==
    Reverse(SummaryLoop(es, currentDate, 0, <<>>))

(***************************************************************************)
(* Form texts and JavaScript numbers.  A text is <<kind, val>>:            *)
(*   "empty"        the empty string                                       *)
(*   "blank"        white space only                                       *)
(*   "alpha"        letters, no numeral                                    *)
(*   "number"       the decimal numeral of val                             *)
(*   "numberalpha"  the decimal numeral of val followed by letters         *)
(* A number is [nan, v]: NaN, or the integer v.                            *)
(***************************************************************************)
EmptyText == <<"empty", 0>>
BlankText == <<"blank", 0>>
AlphaText == <<"alpha", 0>>
Numeral(n) == <<"number", n>>
NumeralAlpha(n) == <<"numberalpha", n>>

NaN == [nan |-> TRUE, v |-> 0]
Num(n) == [nan |-> FALSE, v |-> n]

\* Number(text): "" and white space give 0, trailing letters give NaN
Number(t) ==
    CASE t[1] \in {"empty", "blank"} -> Num(0)
      [] t[1] = "number" -> Num(t[2])
      [] OTHER -> NaN

\* parseFloat(text): the leading numeral, NaN when there is none
parseFloat(t) ==
    CASE t[1] \in {"number", "numberalpha"} -> Num(t[2])
      [] OTHER -> NaN

isNaN(x) == x.nan

\* !text: only the empty string is falsy
Falsy(t) == t[1] = "empty"

\* String.prototype.trim
trim(t) == IF t[1] = "blank" THEN EmptyText ELSE t

\* Number.prototype.toString
toString(n) == Numeral(n)

\* comparisons of numbers: false when either side is NaN
Gt(a, b) == ~a.nan /\ ~b.nan /\ a.v > b.v
Lt(a, b) == ~a.nan /\ ~b.nan /\ a.v < b.v
Le(a, b) == ~a.nan /\ ~b.nan /\ a.v <= b.v

\* no goal (null / undefined), no error message
NoGoal == [id |-> 0]
NoError == <<>>

(***************************************************************************)
(* Calls of the aggregation and progress helpers on every input of a       *)
(* bounded set: SpecHelpers.                                               *)
(***************************************************************************)
Expense(a, c, d) == [amount |-> a, category |-> c, date |-> d]

\* the fields of an Expense that the helpers read (id, description,
\* createdAt and userId are never read by them)
ExpensePool ==
    { Expense(100, "food", IsoDate(2024, 6, 1)),
      Expense(50, "food", IsoDate(2024, 6, 15)),
      Expense(30, "housing", IsoDate(2024, 6, 2)),
      Expense(50, "food", IsoDate(2024, 7, 1)),
      Expense(-30, "housing", IsoDate(2024, 6, 2)),
      Expense(30, "other", IsoDate(2023, 11, 20)) }

\* month keys: canonical ones, a shorter prefix ("2024-0") and the empty string
MonthKeys ==
    { MonthKey(2024, 6), MonthKey(2024, 7), MonthKey(2023, 11),
      SubSeq(MonthKey(2024, 6), 1, 6), <<>> }

Budget(mk, cats, total) ==
    [id |-> "b", month |-> mk, categories |-> cats, totalBudget |-> total]

BudgetPool ==
    { Budget(MonthKey(2024, 6), EmptyObject, 0),
      Budget(MonthKey(2024, 6), [c \in {"food"} |-> 200], 200),
      Budget(MonthKey(2024, 6), [c \in {"food", "housing"} |-> 40], 100),
      Budget(MonthKey(2024, 7), EmptyObject, 100),
      Budget(MonthKey(2024, 6), [c \in {"food"} |-> 0], 100) }

\* the categories the category helpers are asked about
CategoryArgs == {"food", "housing", "utilities"}

SeqsUpTo(S, n) == UNION { [1..k -> S] : k \in 0..n }

NoResult == [op |-> "none"]
NoDate == [y |-> 2024, m |-> 0, d |-> 1]

\* no expense (null), and the expenses and budget pages with no dialog open
NoExpense == [id |-> 0]

\* the expense list shown, the authentication form as it mounts
AuthIdle ==
    /\ activePage = "expenses"
    /\ isLogin = TRUE
    /\ authError = ""
    /\ loading = FALSE
    /\ authCalls = {}
    /\ authOutcome = "none"

PagesIdle ==
    /\ showAddExpense = FALSE
    /\ editingExpense = NoExpense
    /\ budgets = <<>>
    /\ showBudgetForm = FALSE
    /\ totalBudget = EmptyText
    /\ categoryBudgets = EmptyObject
    /\ AuthIdle

\* the savings page with nothing on it: nobody signed in, no dialog open
SavingsIdle ==
    /\ user = NULL
    /\ savingsGoals = <<>>
    /\ nextId = 0
    /\ pending = {}
    /\ showAddGoalForm = FALSE
    /\ editingGoal = NoGoal
    /\ fundingGoal = NoGoal
    /\ errors = {}
    /\ amount = EmptyText
    /\ error = NoError

InitHelpers ==
    /\ expenses \in SeqsUpTo(ExpensePool, MaxExpenses)
    /\ month \in MonthKeys
    /\ budget \in BudgetPool
    /\ now = NoDate
    /\ result = NoResult
    /\ SavingsIdle
    /\ PagesIdle

Call(op, val) ==
    /\ result = NoResult
    /\ result' = [op |-> op, val |-> val]
    /\ UNCHANGED <<expenses, month, budget, now>>
    /\ UNCHANGED <<savingsVars, pageVars>>

CallFilterExpensesByMonth ==
    Call("filterExpensesByMonth", filterExpensesByMonth(expenses, month))

CallCalculateMonthlyTotal ==
    Call("calculateMonthlyTotal", calculateMonthlyTotal(expenses, month))

CallCalculateExpensesByCategory ==
    Call("calculateExpensesByCategory", calculateExpensesByCategory(expenses, month))

CallCalculateBudgetProgress ==
    Call("calculateBudgetProgress", calculateBudgetProgress(budget, expenses))

\* a call with an argument that is not part of the state
CallWith(op, arg, val) ==
    /\ result = NoResult
    /\ result' = [op |-> op, arg |-> arg, val |-> val]
    /\ UNCHANGED <<expenses, month, budget, now>>
    /\ UNCHANGED <<savingsVars, pageVars>>

CallCalculateCategoryBudgetProgress(category) ==
    CallWith("calculateCategoryBudgetProgress", category,
             calculateCategoryBudgetProgress(budget, expenses, category))

\* the fields of a SavingsGoal that calculateSavingsProgress reads
GoalArgs ==
    [targetAmount : {-100, 0, 80, 100}, currentAmount : {0, 50, 80, 100, 120}]

CallCalculateSavingsProgress(goal) ==
    CallWith("calculateSavingsProgress", goal, calculateSavingsProgress(goal))

NextHelpers ==
    \/ CallFilterExpensesByMonth
    \/ CallCalculateMonthlyTotal
    \/ CallCalculateExpensesByCategory
    \/ CallCalculateBudgetProgress
    \/ \E category \in CategoryArgs : CallCalculateCategoryBudgetProgress(category)
    \/ \E goal \in GoalArgs : CallCalculateSavingsProgress(goal)

SpecHelpers == InitHelpers /\ [][NextHelpers]_vars

(***************************************************************************)
(* What the claims compare the helpers with.                               *)
(***************************************************************************)
\* the sum of the amounts of a list of expenses
RECURSIVE SumAmounts(_)
SumAmounts(list) ==
    IF list = <<>> THEN 0 ELSE Head(list).amount + SumAmounts(Tail(list))

\* the sum of the values of a category -> amount mapping
RECURSIVE SumValues(_)
SumValues(obj) ==
    IF DOMAIN obj = {} THEN 0
    ELSE LET c == CHOOSE k \in DOMAIN obj : TRUE
         IN  obj[c] + SumValues([k \in DOMAIN obj \ {c} |-> obj[k]])

AllAmountsPositive(es) == \A i \in 1..Len(es) : es[i].amount > 0

\* the expenses of `es` dated in the calendar month of the canonical key mk
InCalendarMonth(es, mk) ==
    SelectSeq(es, LAMBDA e : SubSeq(e.date, 1, 7) = mk)

Over100(r) == r.num > 100 * r.den

\* C1: the amounts of the expenses that filterExpensesByMonth(E, M) selects
\* add up to calculateMonthlyTotal(E, M), for every collection and month key.
C1_FilterSumIsMonthlyTotal ==
    result.op = "calculateMonthlyTotal" =>
        result.val = SumAmounts(filterExpensesByMonth(expenses, month))

C1_Witness ==
    /\ result.op = "calculateMonthlyTotal"
    /\ result.val = 150
    /\ Len(expenses) = 3
    /\ Len(filterExpensesByMonth(expenses, month)) = 2

C10_BudgetProgress ==
    result.op = "calculateBudgetProgress" =>
        LET spent == SumAmounts(InCalendarMonth(expenses, budget.month))
        IN  /\ budget.totalBudget > 0 =>
                /\ result.val = [num |-> spent * 100, den |-> budget.totalBudget]
                /\ Over100(result.val) <=> spent > budget.totalBudget
            /\ budget.totalBudget = 0 => result.val = [num |-> 0, den |-> 1]

C10_Witness ==
    /\ result.op = "calculateBudgetProgress"
    /\ budget.totalBudget = 100
    /\ budget.month = MonthKey(2024, 6)
    /\ Over100(result.val)
    /\ \E i \in 1..Len(expenses) : expenses[i].date = IsoDate(2024, 7, 1)

C10_WitnessZeroLimit ==
    /\ result.op = "calculateBudgetProgress"
    /\ budget.totalBudget = 0
    /\ SumAmounts(InCalendarMonth(expenses, budget.month)) > 0

\* the amounts of the expenses of category c in the calendar month of mk
SpentOn(es, mk, c) ==
    SumAmounts(SelectSeq(InCalendarMonth(es, mk), LAMBDA e : e.category = c))

LimitOf(b, c) == IF c \in DOMAIN b.categories THEN b.categories[c] ELSE 0

\* C11: category progress is (spend of that category in the budget's month) /
\* (the category's limit) * 100 when the limit is positive and 0 when the
\* category has no limit or a limit of 0; 50 on food against 200 gives 25.
C11_CategoryBudgetProgress ==
    result.op = "calculateCategoryBudgetProgress" =>
        LET spent == SpentOn(expenses, budget.month, result.arg)
            limit == LimitOf(budget, result.arg)
        IN  /\ limit > 0 => result.val = [num |-> spent * 100, den |-> limit]
            /\ limit = 0 => result.val = [num |-> 0, den |-> 1]
            /\ (limit = 200 /\ spent = 50) => result.val.num = 25 * result.val.den

C11_Witness ==
    /\ result.op = "calculateCategoryBudgetProgress"
    /\ result.arg = "food"
    /\ LimitOf(budget, "food") = 200
    /\ SpentOn(expenses, budget.month, "food") = 50
    /\ \E i \in 1..Len(expenses) : expenses[i].category = "housing"
    /\ \E i \in 1..Len(expenses) : expenses[i].date = IsoDate(2024, 7, 1)

C11_WitnessNoLimit ==
    /\ result.op = "calculateCategoryBudgetProgress"
    /\ LimitOf(budget, result.arg) = 0
    /\ SpentOn(expenses, budget.month, result.arg) > 0

\* a progress value is a percentage between 0 and 100, and is 100 exactly
\* when the goal is reached
WithinPercent(r, goal) ==
    /\ 0 <= r.num
    /\ r.num <= 100 * r.den
    /\ r.num = 100 * r.den <=> goal.currentAmount = goal.targetAmount

SavingsProgressValue(r, goal) ==
    /\ goal.targetAmount > 0 =>
          r = [num |-> goal.currentAmount * 100, den |-> goal.targetAmount]
    /\ goal.targetAmount <= 0 => r = [num |-> 0, den |-> 1]

\* C12 as stated: savings progress is currentAmount / targetAmount * 100 when
\* targetAmount > 0 and 0 otherwise, and for every goal with
\* 0 <= currentAmount <= targetAmount it lies in [0, 100] and is 100 exactly
\* when currentAmount = targetAmount.
C12_SavingsProgressAnyGoal ==
    result.op = "calculateSavingsProgress" =>
        /\ SavingsProgressValue(result.val, result.arg)
        /\ (0 <= result.arg.currentAmount
              /\ result.arg.currentAmount <= result.arg.targetAmount) =>
                WithinPercent(result.val, result.arg)

\* C12, amended: the same, the range and the "100 exactly when reached" part
\* for goals with targetAmount > 0 and 0 <= currentAmount <= targetAmount.
C12_SavingsProgress ==
    result.op = "calculateSavingsProgress" =>
        /\ SavingsProgressValue(result.val, result.arg)
        /\ (result.arg.targetAmount > 0 /\ 0 <= result.arg.currentAmount
              /\ result.arg.currentAmount <= result.arg.targetAmount) =>
                WithinPercent(result.val, result.arg)

C12_Witness ==
    /\ result.op = "calculateSavingsProgress"
    /\ result.arg.targetAmount = 100
    /\ result.arg.currentAmount = 100
    /\ result.val.num = 100 * result.val.den

C12_WitnessZeroTarget ==
    /\ result.op = "calculateSavingsProgress"
    /\ result.arg.targetAmount = 0
    /\ result.arg.currentAmount = 0
    /\ result.val = Zero

\* the positions of the expenses of es whose date has mk as its first
\* characters, and the k-th of them in the order of the list
MatchingPositions(es, mk) ==
    { i \in 1..Len(es) :
        /\ Len(mk) <= Len(es[i].date)
        /\ \A j \in 1..Len(mk) : es[i].date[j] = mk[j] }

KthOf(I, k) == CHOOSE i \in I : Cardinality({j \in I : j < i}) = k - 1

\* C13: filterExpensesByMonth(E, M) is the list of the expenses of E whose
\* date starts with M, each occurrence once and in the order of E; it is the
\* empty list when none matches.
C13_FilterExactlyMatching ==
    result.op = "filterExpensesByMonth" =>
        LET I == MatchingPositions(expenses, month)
        IN  /\ Len(result.val) = Cardinality(I)
            /\ \A k \in 1..Len(result.val) : result.val[k] = expenses[KthOf(I, k)]
            /\ I = {} => result.val = <<>>

C13_Witness ==
    /\ result.op = "filterExpensesByMonth"
    /\ MatchingPositions(expenses, month) = {1, 3}
    /\ expenses[1] # expenses[3]
    /\ result.val = <<expenses[1], expenses[3]>>

C13_WitnessNoMatch ==
    /\ result.op = "filterExpensesByMonth"
    /\ Len(expenses) = 3
    /\ result.val = <<>>

\* the sum of the amounts of the expenses of es at the positions I
RECURSIVE SumAt(_, _)
SumAt(es, I) ==
    IF I = {} THEN 0
    ELSE LET i == CHOOSE j \in I : TRUE
         IN  es[i].amount + SumAt(es, I \ {i})

CategoryPositions(es, mk, c) ==
    { i \in MatchingPositions(es, mk) : es[i].category = c }

\* C14: with positive amounts, calculateExpensesByCategory(E, M) has a key c
\* exactly when some expense of E in month M has category c, and its value
\* is the sum of the amounts of those expenses; food 100, food 50 and
\* housing 30 in 2024-06 give total 180 and {food: 150, housing: 30}.
C14_KeysAndSumsPerCategory ==
    (result.op = "calculateExpensesByCategory" /\ AllAmountsPositive(expenses)) =>
        /\ DOMAIN result.val =
              { expenses[i].category : i \in MatchingPositions(expenses, month) }
        /\ \A c \in DOMAIN result.val :
              result.val[c] = SumAt(expenses, CategoryPositions(expenses, month, c))
        /\ ( /\ expenses = << Expense(100, "food", IsoDate(2024, 6, 1)),
                              Expense(50, "food", IsoDate(2024, 6, 15)),
                              Expense(30, "housing", IsoDate(2024, 6, 2)) >>
             /\ month = MonthKey(2024, 6) ) =>
                /\ calculateMonthlyTotal(expenses, month) = 180
                /\ result.val = [c \in {"food", "housing"} |->
                                    IF c = "food" THEN 150 ELSE 30]

C14_Witness ==
    /\ result.op = "calculateExpensesByCategory"
    /\ expenses = << Expense(100, "food", IsoDate(2024, 6, 1)),
                     Expense(50, "food", IsoDate(2024, 6, 15)),
                     Expense(30, "housing", IsoDate(2024, 6, 2)) >>
    /\ month = MonthKey(2024, 6)
    /\ result.val["food"] = 150
    /\ result.val["housing"] = 30

C14_WitnessOtherMonth ==
    /\ result.op = "calculateExpensesByCategory"
    /\ AllAmountsPositive(expenses)
    /\ \E i \in 1..Len(expenses) :
          /\ i \notin MatchingPositions(expenses, month)
          /\ expenses[i].category \notin DOMAIN result.val
    /\ DOMAIN result.val # {}

(***************************************************************************)
(* Calls of the rolling summary for every date of two years (one of them a *)
(* leap year) and every collection of a bounded set: SpecSummary.          *)
(***************************************************************************)
SummaryYears == {2023, 2024}

Dates ==
    { dt \in [y : SummaryYears, m : 0..11, d : 1..31] : dt.d <= DaysInMonth(dt.y, dt.m) }

SummaryPool ==
    { Expense(30, "other", IsoDate(2023, 11, 20)),
      Expense(100, "food", IsoDate(2024, 1, 31)),
      Expense(50, "housing", IsoDate(2024, 1, 5)),
      Expense(50, "food", IsoDate(2024, 3, 1)) }

InitSummary ==
    /\ expenses \in SeqsUpTo(SummaryPool, MaxSummaryExpenses)
    /\ now \in Dates
    /\ month = <<>>
    /\ budget = Budget(<<>>, EmptyObject, 0)
    /\ result = NoResult
    /\ SavingsIdle
    /\ PagesIdle

CallGetLastSixMonthsSummary ==
    Call("getLastSixMonthsSummary", getLastSixMonthsSummary(expenses, now))

\* SpendingInsights: the spending stats over state.monthlySummaries, which
\* AppContext sets to getLastSixMonthsSummary(expenses)
RECURSIVE InsertByTotal(_, _, _)
InsertByTotal(list, x, sign) ==
    IF list = <<>> THEN <<x>>
    ELSE IF sign * (x.total - Head(list).total) < 0 THEN <<x>> \o list
    ELSE <<Head(list)>> \o InsertByTotal(Tail(list), x, sign)

RECURSIVE SortByTotal(_, _)
SortByTotal(list, sign) ==
    IF list = <<>> THEN <<>>
    ELSE InsertByTotal(SortByTotal(SubSeq(list, 1, Len(list) - 1), sign),
                       list[Len(list)], sign)

\* [...summaries].sort((a, b) => b.total - a.total)[0]
highestMonth(summaries) == SortByTotal(summaries, -1)[1]

lowestMonth_NoFilter(summaries) ==
    LET sorted == SortByTotal(summaries, 1)
    IN  SubSeq(sorted, 1, IF sorted = <<>> THEN 0 ELSE 1)

\* [...summaries].filter(m => m.total > 0).sort((a, b) => a.total - b.total)[0]:
\* <<>> when undefined ("No data available"), else the one entry
lowestMonth(summaries) ==
    LET sorted == SortByTotal(SelectSeq(summaries, LAMBDA m : m.total > 0), 1)
    IN  SubSeq(sorted, 1, IF sorted = <<>> THEN 0 ELSE 1)

\* the stats block, rendered when there is more than one summary
CallSpendingStats ==
    LET monthlySummaries == getLastSixMonthsSummary(expenses, now)
    IN  /\ Len(monthlySummaries) > 1
        /\ Call("SpendingStats",
                [highestMonth |-> highestMonth(monthlySummaries),
                 lowestMonth |-> lowestMonth(monthlySummaries)])

NextSummary ==
    \/ CallGetLastSixMonthsSummary
    \/ CallSpendingStats

SpecSummary == InitSummary /\ [][NextSummary]_vars

\* the canonical key of the calendar month k months before the month of date
MonthsBefore(date, k) ==
    LET n == date.y * 12 + date.m - k
    IN  MonthKey(n \div 12, (n % 12) + 1)

\* the current month and the five before it, oldest first
SixMonthKeys(date) == [j \in 1..6 |-> MonthsBefore(date, 6 - j)]

KeysOf(summary) == [j \in 1..Len(summary) |-> summary[j].month]

\* C7: for every date, the summary's month keys are the five calendar months
\* before the current month and the current month, oldest first.
C7_SixConsecutiveMonths ==
    result.op = "getLastSixMonthsSummary" =>
        KeysOf(result.val) = SixMonthKeys(now)

\* C7 restricted to the days every month has
C7_HoldsUpToDay28 ==
    (result.op = "getLastSixMonthsSummary" /\ now.d <= 28) =>
        KeysOf(result.val) = SixMonthKeys(now)

\* C8: the summary has exactly 6 entries, for every collection (the empty
\* one too) and every date.
C8_ExactlySixEntries ==
    result.op = "getLastSixMonthsSummary" => Len(result.val) = 6

C8_Witness ==
    /\ result.op = "getLastSixMonthsSummary"
    /\ expenses = <<>>
    /\ now.d = 31
    /\ Len(result.val) = 6

OnlyInMonths(es, keys) ==
    \A i \in 1..Len(es) : SubSeq(es[i].date, 1, 7) \in keys

\* C9: on 2024-03-15, with expenses in 2023-11 and 2024-01 only, the summary
\* is 2023-10 .. 2024-03 in order, with the sums of the two months and 0 for
\* the other four.
C9_March2024Scenario ==
    ( /\ result.op = "getLastSixMonthsSummary"
      /\ now = [y |-> 2024, m |-> 2, d |-> 15]
      /\ OnlyInMonths(expenses, {MonthKey(2023, 11), MonthKey(2024, 1)}) ) =>
        /\ KeysOf(result.val) =
              << MonthKey(2023, 10), MonthKey(2023, 11), MonthKey(2023, 12),
                 MonthKey(2024, 1), MonthKey(2024, 2), MonthKey(2024, 3) >>
        /\ \A j \in 1..6 :
              result.val[j].total =
                  SumAmounts(InCalendarMonth(expenses, result.val[j].month))
        /\ \A j \in {1, 3, 5, 6} : result.val[j].total = 0

C9_Witness ==
    /\ result.op = "getLastSixMonthsSummary"
    /\ now = [y |-> 2024, m |-> 2, d |-> 15]
    /\ OnlyInMonths(expenses, {MonthKey(2023, 11), MonthKey(2024, 1)})
    /\ result.val[2].total = 30
    /\ result.val[4].total = 100

(***************************************************************************)
(* Amounts with a fraction.  A JavaScript Number is an IEEE 754 binary64    *)
(* value; a non-negative one is written here as the natural number of      *)
(* units of 2^-56 it holds, in binary, least significant bit first, with   *)
(* no leading zero (0 is <<>>).  A binary64 value has at most 53           *)
(* significant bits.  On whole numbers below 2^53 the addition is the      *)
(* integer addition used by the helpers above.                             *)
(***************************************************************************)
SignificandBits == 53

\* the bits of a hexadecimal numeral (digits 0..15, most significant first)
RECURSIVE FromHex(_)
FromHex(h) ==
    IF h = <<>> THEN <<>>
    ELSE LET d == h[Len(h)]
         IN  <<d % 2, (d \div 2) % 2, (d \div 4) % 2, d \div 8>>
               \o FromHex(SubSeq(h, 1, Len(h) - 1))

\* without leading zeros
RECURSIVE Trim(_)
Trim(b) ==
    IF b = <<>> \/ b[Len(b)] = 1 THEN b ELSE Trim(SubSeq(b, 1, Len(b) - 1))

\* hex * 2^e units
Binary64(hex, e) == [i \in 1..e |-> 0] \o Trim(FromHex(hex))

\* a + b + carry, exactly
RECURSIVE AddBits(_, _, _)
AddBits(a, b, carry) ==
    IF a = <<>> /\ b = <<>> THEN (IF carry = 1 THEN <<1>> ELSE <<>>)
    ELSE LET x == IF a = <<>> THEN 0 ELSE Head(a)
             y == IF b = <<>> THEN 0 ELSE Head(b)
             ra == IF a = <<>> THEN <<>> ELSE Tail(a)
             rb == IF b = <<>> THEN <<>> ELSE Tail(b)
         IN  <<(x + y + carry) % 2>> \o AddBits(ra, rb, (x + y + carry) \div 2)

\* the nearest value with SignificandBits significant bits, ties to even
RoundToNearestEven(n) ==
    IF Len(n) <= SignificandBits THEN n
    ELSE LET k == Len(n) - SignificandBits
             kept == SubSeq(n, k + 1, Len(n))
             above == n[k] = 1 /\ \E i \in 1..(k - 1) : n[i] = 1
             tie == n[k] = 1 /\ \A i \in 1..(k - 1) : n[i] = 0
             up == above \/ (tie /\ kept[1] = 1)
         IN  [i \in 1..k |-> 0] \o (IF up THEN AddBits(kept, <<1>>, 0) ELSE kept)

\* a + b of two Numbers
NumberAdd(a, b) == RoundToNearestEven(AddBits(a, b, 0))

\* list.reduce((total, expense) => total + expense.amount, init), on Numbers
RECURSIVE Float_ReduceAmount(_, _)
Float_ReduceAmount(list, total) ==
    IF list = <<>> THEN total
    ELSE Float_ReduceAmount(Tail(list), NumberAdd(total, Head(list).amount))

Float_calculateMonthlyTotal(es, mk) ==
    Float_ReduceAmount(filterExpensesByMonth(es, mk), <<>>)

\* the forEach body of calculateExpensesByCategory, on Numbers
Float_AddToCategory(acc, e) ==
    LET c == e.category
        cleared == IF c \notin DOMAIN acc \/ acc[c] = <<>>
                   THEN [k \in DOMAIN acc \cup {c} |-> IF k = c THEN <<>> ELSE acc[k]]
                   ELSE acc
    IN  [cleared EXCEPT ![c] = NumberAdd(@, e.amount)]

RECURSIVE Float_GroupByCategory(_, _)
Float_GroupByCategory(list, acc) ==
    IF list = <<>> THEN acc
    ELSE Float_GroupByCategory(Tail(list), Float_AddToCategory(acc, Head(list)))

Float_calculateExpensesByCategory(es, mk) ==
    Float_GroupByCategory(filterExpensesByMonth(es, mk), [k \in {} |-> <<>>])

\* 0.1, 0.2, 0.3 and 30 as binary64 values
Tenth == Binary64(<<1, 9, 9, 9, 9, 9, 9, 9, 9, 9, 9, 9, 9, 10>>, 0)
TwoTenths == Binary64(<<1, 9, 9, 9, 9, 9, 9, 9, 9, 9, 9, 9, 9, 10>>, 1)
ThreeTenths == Binary64(<<1, 3, 3, 3, 3, 3, 3, 3, 3, 3, 3, 3, 3, 3>>, 2)
Thirty == Binary64(<<1, 14>>, 56)

(***************************************************************************)
(* The category taxonomy.  A JavaScript value read from an object is       *)
(* [kind, val]: a string, a function inherited from Object.prototype, or   *)
(* undefined.                                                              *)
(***************************************************************************)
ExpenseCategory ==
    {"housing", "transportation", "food", "utilities", "insurance", "healthcare",
     "entertainment", "personal", "education", "debt", "savings", "gifts", "other"}

Str(s) == [kind |-> "string", val |-> s]
Undefined == [kind |-> "undefined", val |-> ""]

\* the properties every object literal inherits
ObjectPrototypeKeys ==
    {"constructor", "toString", "valueOf", "hasOwnProperty", "isPrototypeOf",
     "propertyIsEnumerable", "toLocaleString"}

\* obj[key] for an object literal whose own properties are strings
Get(obj, key) ==
    IF key \in DOMAIN obj THEN Str(obj[key])
    ELSE IF key \in ObjectPrototypeKeys THEN [kind |-> "function", val |-> key]
    ELSE Undefined

Truthy(v) == v.kind = "function" \/ (v.kind = "string" /\ v.val # "")

categoryMap ==
    [housing |-> "Housing", transportation |-> "Transportation",
     food |-> "Food & Dining", utilities |-> "Utilities", insurance |-> "Insurance",
     healthcare |-> "Healthcare", entertainment |-> "Entertainment",
     personal |-> "Personal", education |-> "Education", debt |-> "Debt Payments",
     savings |-> "Savings", gifts |-> "Gifts & Donations", other |-> "Other"]

\* categoryMap[category] || category
getPrettyCategoryName(category) ==
    IF Truthy(Get(categoryMap, category)) THEN Get(categoryMap, category)
    ELSE Str(category)

getCategories ==
    <<"housing", "transportation", "food", "utilities", "insurance", "healthcare",
      "entertainment", "personal", "education", "debt", "savings", "gifts", "other">>

getCategoryColors ==
    [housing |-> "#0D9488", transportation |-> "#8B5CF6", food |-> "#22c55e",
     utilities |-> "#f59e0b", healthcare |-> "#ef4444", insurance |-> "#3b82f6",
     entertainment |-> "#ec4899", personal |-> "#8b5cf6", education |-> "#14b8a6",
     debt |-> "#f43f5e", savings |-> "#06b6d4", gifts |-> "#a855f7",
     other |-> "#6b7280"]

\* the category texts a stored expense can carry (column category is text)
CategoryNameArgs == ExpenseCategory \cup {"groceries", "", "constructor", "toString"}

(***************************************************************************)
(* Repeated calls of the helpers on the same arguments while the clock     *)
(* runs: SpecRepeat.  `result` holds the latest call: the helper, the      *)
(* argument that is not part of the state, and the value returned.         *)
(***************************************************************************)
MaxRepeatExpenses == 1    \* expenses in the collection passed again and again

RepeatMonths == {MonthKey(2024, 6), MonthKey(2023, 11)}
RepeatDates == {[y |-> 2024, m |-> 2, d |-> 15], [y |-> 2024, m |-> 3, d |-> 15]}
Uuids == {"uuid-1", "uuid-2"}

InitRepeat ==
    /\ expenses \in SeqsUpTo(ExpensePool, MaxRepeatExpenses)
    /\ month \in RepeatMonths
    /\ budget \in BudgetPool
    /\ now \in RepeatDates
    /\ result = NoResult
    /\ SavingsIdle
    /\ PagesIdle

\* time passes between two calls
Tick ==
    /\ \E later \in RepeatDates :
          /\ later.m > now.m
          /\ now' = later
    /\ UNCHANGED <<expenses, month, budget, result>>
    /\ UNCHANGED <<savingsVars, pageVars>>

Recall(op, arg, val) ==
    /\ result' = [op |-> op, arg |-> arg, val |-> val]
    /\ UNCHANGED <<expenses, month, budget, now>>
    /\ UNCHANGED <<savingsVars, pageVars>>

NextRepeat ==
    \/ Tick
    \/ Recall("filterExpensesByMonth", "none", filterExpensesByMonth(expenses, month))
    \/ Recall("calculateMonthlyTotal", "none", calculateMonthlyTotal(expenses, month))
    \/ Recall("calculateExpensesByCategory", "none",
              calculateExpensesByCategory(expenses, month))
    \/ Recall("calculateBudgetProgress", "none",
              calculateBudgetProgress(budget, expenses))
    \/ \E category \in CategoryArgs :
          Recall("calculateCategoryBudgetProgress", category,
                 calculateCategoryBudgetProgress(budget, expenses, category))
    \/ \E goal \in GoalArgs :
          Recall("calculateSavingsProgress", goal, calculateSavingsProgress(goal))
    \/ Recall("getLastSixMonthsSummary", "none",
              getLastSixMonthsSummary(expenses, now))
    \/ \E bs \in SeqsUpTo(BudgetPool, 1), uuid \in Uuids :
          Recall("getCurrentBudget", bs, getCurrentBudget(bs, month, uuid))
    \/ \E category \in CategoryNameArgs :
          Recall("getPrettyCategoryName", category, getPrettyCategoryName(category))
    \/ Recall("getCategories", "none", getCategories)
    \/ Recall("getCategoryColors", "none", getCategoryColors)

SpecRepeat == InitRepeat /\ [][NextRepeat]_vars

\* C15: a call of a helper that repeats the previous call, with the same
\* arguments, returns the same value.
C15_SameArgumentsSameResult ==
    [][( /\ result.op # "none"
         /\ result'.op = result.op
         /\ result'.arg = result.arg
         /\ UNCHANGED <<expenses, month, budget>> )
       => result'.val = result.val]_vars

\* the same for the helpers that read neither the clock nor a random source
C15_PureHelpersRepeat ==
    [][( /\ result.op \notin {"none", "getLastSixMonthsSummary", "getCurrentBudget"}
         /\ result'.op = result.op
         /\ result'.arg = result.arg
         /\ UNCHANGED <<expenses, month, budget>> )
       => result'.val = result.val]_vars

\* a percentage that is 0
ZeroPercent(r) == r.num = 0 /\ r.den > 0

\* C20: on the empty expense collection every aggregation and progress
\* helper returns a value, and a zero-valued one: no expense of the month,
\* monthly total 0, empty per-category mapping, budget progress 0 and
\* category progress 0 whatever the budget and the category, and six
\* rolling-summary entries, each with total 0.
C20_EmptyInputZeroValued ==
    (expenses = <<>> /\ result.op # "none") =>
        CASE result.op = "filterExpensesByMonth" -> result.val = <<>>
          [] result.op = "calculateMonthlyTotal" -> result.val = 0
          [] result.op = "calculateExpensesByCategory" -> result.val = EmptyObject
          [] result.op = "calculateBudgetProgress" -> ZeroPercent(result.val)
          [] result.op = "calculateCategoryBudgetProgress" -> ZeroPercent(result.val)
          [] result.op = "getLastSixMonthsSummary" ->
                /\ Len(result.val) = SummaryMonths
                /\ \A j \in 1..Len(result.val) : result.val[j].total = 0
          [] OTHER -> TRUE

C20_Witness ==
    /\ expenses = <<>>
    /\ result.op = "getLastSixMonthsSummary"
    /\ Len(result.val) = SummaryMonths

C20_WitnessBudgetProgress ==
    /\ expenses = <<>>
    /\ result.op = "calculateBudgetProgress"
    /\ budget.totalBudget > 0

C20_WitnessCategoryProgress ==
    /\ expenses = <<>>
    /\ result.op = "calculateCategoryBudgetProgress"
    /\ result.arg = "food"
    /\ budget.categories = [c \in {"food"} |-> 200]

C20_WitnessByCategory ==
    /\ expenses = <<>>
    /\ result.op = "calculateExpensesByCategory"

\* the part of the taxonomy that does not depend on the name asked for
TaxonomyComplete ==
    /\ result.op = "getCategories" =>
          /\ Len(result.val) = 13
          /\ { result.val[i] : i \in 1..Len(result.val) } = ExpenseCategory
          /\ \A i, j \in 1..Len(result.val) : result.val[i] = result.val[j] => i = j
    /\ result.op = "getCategoryColors" =>
          /\ DOMAIN result.val = ExpenseCategory
          /\ \A c \in ExpenseCategory : result.val[c] # ""
    /\ (result.op = "getPrettyCategoryName" /\ result.arg \in ExpenseCategory) =>
          /\ result.val.kind = "string"
          /\ result.val.val = categoryMap[result.arg]
          /\ result.val.val # ""

\* C21: getCategories returns exactly the 13 distinct identifiers of
\* ExpenseCategory, each of them has a label and a color, and for every name
\* outside the 13 getPrettyCategoryName returns the name itself.
C21_TaxonomyClosedAndComplete ==
    /\ TaxonomyComplete
    /\ (result.op = "getPrettyCategoryName" /\ result.arg \notin ExpenseCategory) =>
          result.val = Str(result.arg)

\* the same, the names of inherited properties left aside
C21_TaxonomyExceptInheritedNames ==
    /\ TaxonomyComplete
    /\ ( /\ result.op = "getPrettyCategoryName"
         /\ result.arg \notin ExpenseCategory
         /\ result.arg \notin ObjectPrototypeKeys ) =>
          result.val = Str(result.arg)

C21_WitnessUnknownName ==
    /\ result.op = "getPrettyCategoryName"
    /\ result.arg = "groceries"
    /\ result.val = Str("groceries")

(***************************************************************************)
(* The savings page: context/AppContext.tsx (savings goals),               *)
(* SavingsGoalList, SavingsGoalForm, AddFundsForm and the savings_goals    *)
(* table of the persistence service: Spec.                                 *)
(***************************************************************************)
\* the day the page is used on, and the texts a user types into the forms
Today == [y |-> 2024, m |-> 5, d |-> 15]

NameTexts == {BlankText, AlphaText}
TargetAmountTexts == {AlphaText, Numeral(80), Numeral(100)}
CurrentAmountTexts == {EmptyText, Numeral(80), Numeral(100)}
TargetDateTexts == {<<>>, IsoDate(2024, 9, 13), IsoDate(2024, 1, 1)}
AmountTexts == {EmptyText, AlphaText, Numeral(0), Numeral(-20), Numeral(20),
                Numeral(30), NumeralAlpha(20)}

\* progress >= 100, the test SavingsGoalList makes before it offers Add Funds
IsCompleted(goal) ==
    LET progress == calculateSavingsProgress(goal)
    IN  progress.num >= 100 * progress.den

GoalIndex(id) == {i \in 1..Len(savingsGoals) : savingsGoals[i].id = id}

\* the CHECK constraints of table savings_goals (dates are ISO strings, which
\* compare as the days they name; both are of the year 2024 here)
DayOfYear(date) ==
    LET digit(c) == CHOOSE n \in 0..9 : Digit(n) = c
    IN  (digit(date[6]) * 10 + digit(date[7])) * 100 + digit(date[9]) * 10 + digit(date[10])

StoreAccepts(goal) ==
    /\ goal.targetAmount > 0
    /\ goal.currentAmount >= 0
    /\ DayOfYear(goal.targetDate) >= DayOfYear(goal.startDate)
    /\ goal.currentAmount <= goal.targetAmount

\* `await supabase.from('savings_goals')...`: the request leaves, the reply
\* comes later
Request(kind, id, goal, amt) == [kind |-> kind, id |-> id, goal |-> goal, amount |-> amt]

Send(r) ==
    /\ Cardinality(pending) < MaxPending
    /\ pending' = pending \cup {r}

\* ------------------------------------------------------------ AppContext
addSavingsGoal(goalData) ==
    IF user = NULL THEN UNCHANGED <<pending, nextId>>
    ELSE /\ nextId < MaxGoals
         /\ nextId' = nextId + 1
         /\ Send(Request("insert", nextId + 1,
                         goalData @@ [id |-> nextId + 1, userId |-> user], 0))

updateSavingsGoal(goal) ==
    /\ UNCHANGED nextId
    /\ IF user = NULL THEN UNCHANGED pending
       ELSE Send(Request("update", goal.id, goal, 0))

deleteSavingsGoal(id) ==
    IF user = NULL THEN UNCHANGED pending
    ELSE Send(Request("delete", id, NoGoal, 0))

updateSavingsAmount(id, amt) ==
    IF user = NULL \/ GoalIndex(id) = {} THEN UNCHANGED pending
    ELSE LET goal == savingsGoals[CHOOSE i \in GoalIndex(id) : TRUE]
         IN  Send(Request("amount", id, [goal EXCEPT !.currentAmount = amt], amt))

\* the setState updater each operation runs when its request succeeded
Applied(r, goals) ==
    CASE r.kind = "insert" -> Append(goals, r.goal)
      [] r.kind = "update" ->
            [i \in 1..Len(goals) |-> IF goals[i].id = r.id THEN r.goal ELSE goals[i]]
      [] r.kind = "amount" ->
            [i \in 1..Len(goals) |->
                IF goals[i].id = r.id THEN [goals[i] EXCEPT !.currentAmount = r.amount]
                ELSE goals[i]]
      [] r.kind = "delete" -> SelectSeq(goals, LAMBDA g : g.id # r.id)

\* the reply `{ error: null }`: the store took the request
ReplyOk(r) ==
    /\ r \in pending
    /\ r.kind \in {"insert", "update", "amount"} => StoreAccepts(r.goal)
    /\ pending' = pending \ {r}
    /\ savingsGoals' = Applied(r, savingsGoals)
    /\ UNCHANGED <<user, nextId, showAddGoalForm, editingGoal, fundingGoal,
                   errors, amount, error>>
    /\ UNCHANGED <<helperVars, pageVars>>

\* the reply `{ error }`: a constraint of the table, or the network
ReplyError(r) ==
    /\ r \in pending
    /\ pending' = pending \ {r}
    /\ UNCHANGED <<user, savingsGoals, nextId, showAddGoalForm, editingGoal,
                   fundingGoal, errors, amount, error>>
    /\ UNCHANGED <<helperVars, pageVars>>

\* ------------------------------------------------------- SavingsGoalList
GoalFormMounted == showAddGoalForm \/ editingGoal # NoGoal

\* Every dialog is an overlay over the whole page (`fixed inset-0 ... z-50`):
\* the buttons of the list are reached only while no dialog is open.
ListReachable == ~GoalFormMounted /\ fundingGoal = NoGoal

ClickAddGoal ==
    /\ user # NULL
    /\ ListReachable
    /\ showAddGoalForm' = TRUE
    /\ UNCHANGED <<user, savingsGoals, nextId, pending, editingGoal, fundingGoal,
                   errors, amount, error>>
    /\ UNCHANGED <<helperVars, pageVars>>

ClickEditGoal(i) ==
    /\ user # NULL
    /\ ListReachable
    /\ editingGoal' = savingsGoals[i]
    /\ UNCHANGED <<user, savingsGoals, nextId, pending, showAddGoalForm,
                   fundingGoal, errors, amount, error>>
    /\ UNCHANGED <<helperVars, pageVars>>

ClickAddFunds(i) ==
    /\ user # NULL
    /\ ListReachable
    /\ ~IsCompleted(savingsGoals[i])
    /\ fundingGoal' = savingsGoals[i]
    /\ UNCHANGED <<user, savingsGoals, nextId, pending, showAddGoalForm,
                   editingGoal, errors, amount, error>>
    /\ UNCHANGED <<helperVars, pageVars>>

\* the trash button, then Delete in the confirmation
ClickDeleteGoal(i) ==
    /\ user # NULL
    /\ ListReachable
    /\ deleteSavingsGoal(savingsGoals[i].id)
    /\ UNCHANGED <<user, savingsGoals, nextId, showAddGoalForm, editingGoal,
                   fundingGoal, errors, amount, error>>
    /\ UNCHANGED <<helperVars, pageVars>>

\* onClose of the goal form: the form is unmounted and its state dropped
CloseGoalForm ==
    /\ showAddGoalForm' = FALSE
    /\ editingGoal' = NoGoal
    /\ errors' = {}

\* onClose of the funding form: likewise
CloseFundsForm ==
    /\ fundingGoal' = NoGoal
    /\ amount' = EmptyText
    /\ error' = NoError

CancelGoalForm ==
    /\ GoalFormMounted
    /\ CloseGoalForm
    /\ UNCHANGED <<user, savingsGoals, nextId, pending, fundingGoal, amount, error>>
    /\ UNCHANGED <<helperVars, pageVars>>

CancelFundsForm ==
    /\ fundingGoal # NoGoal
    /\ CloseFundsForm
    /\ UNCHANGED <<user, savingsGoals, nextId, pending, showAddGoalForm,
                   editingGoal, errors>>
    /\ UNCHANGED <<helperVars, pageVars>>

\* ------------------------------------------------------- SavingsGoalForm
Fields(name, targetAmount, currentAmount, targetDate) ==
    [name |-> name, targetAmount |-> targetAmount,
     currentAmount |-> currentAmount, targetDate |-> targetDate]

\* newErrors, as the set of <<field, message>> it ends with
validateForm(f) ==
    LET nameErrors ==
            IF Falsy(trim(f.name)) THEN {<<"name", "Name is required">>} ELSE {}
        targetErrors ==
            IF Falsy(f.targetAmount) \/ isNaN(Number(f.targetAmount))
                  \/ Le(Number(f.targetAmount), Num(0))
            THEN {<<"targetAmount",
                    "Please enter a valid target amount greater than zero">>}
            ELSE {}
        currentErrors ==
            IF Gt(Number(f.currentAmount), Number(f.targetAmount))
            THEN {<<"currentAmount", "Current amount cannot exceed target amount">>}
            ELSE IF Falsy(f.currentAmount) \/ isNaN(Number(f.currentAmount))
                       \/ Lt(Number(f.currentAmount), Num(0))
            THEN {<<"currentAmount",
                    "Please enter a valid current amount (0 or greater)">>}
            ELSE {}
        dateErrors ==
            IF f.targetDate = <<>> THEN {<<"targetDate", "Target date is required">>}
            ELSE {}
    IN  nameErrors \cup targetErrors \cup currentErrors \cup dateErrors

GoalData(f) ==
    [name |-> f.name,
     targetAmount |-> Number(f.targetAmount).v,
     currentAmount |-> Number(f.currentAmount).v,
     startDate |-> FormatDate(now),
     targetDate |-> f.targetDate,
     category |-> "vacation"]

\* The texts of the fields are the form's own state; each can be retyped
\* before a submit, so a submit takes them as its input f.
handleSubmit(f) ==
    /\ GoalFormMounted
    /\ IF validateForm(f) # {}
       THEN /\ errors' = validateForm(f)
            /\ UNCHANGED <<pending, nextId, showAddGoalForm, editingGoal>>
       ELSE /\ IF editingGoal # NoGoal
               THEN updateSavingsGoal(GoalData(f) @@ editingGoal)
               ELSE addSavingsGoal(GoalData(f))
            /\ CloseGoalForm
    /\ UNCHANGED <<user, savingsGoals, fundingGoal, amount, error>>
    /\ UNCHANGED <<helperVars, pageVars>>

\* ---------------------------------------------------------- AddFundsForm
\* onChange of the amount field
SetAmount(t) ==
    /\ fundingGoal # NoGoal
    /\ amount' = t
    /\ error' = NoError
    /\ UNCHANGED <<user, savingsGoals, nextId, pending, showAddGoalForm,
                   editingGoal, fundingGoal, errors>>
    /\ UNCHANGED <<helperVars, pageVars>>

handleAddFunds_ReadsStoredGoal ==
    /\ fundingGoal # NoGoal
    /\ LET numAmount == parseFloat(amount)
           stored == IF GoalIndex(fundingGoal.id) = {} THEN fundingGoal
                     ELSE savingsGoals[CHOOSE i \in GoalIndex(fundingGoal.id) : TRUE]
           newTotal == stored.currentAmount + numAmount.v
           remaining == stored.targetAmount - stored.currentAmount
       IN  IF Falsy(amount) \/ isNaN(numAmount) \/ numAmount.v <= 0
           THEN /\ error' = <<"Please enter a valid amount">>
                /\ UNCHANGED <<pending, fundingGoal, amount>>
           ELSE IF newTotal > stored.targetAmount
           THEN /\ error' = <<"Amount exceeds remaining goal of", remaining>>
                /\ UNCHANGED <<pending, fundingGoal, amount>>
           ELSE /\ updateSavingsAmount(fundingGoal.id, newTotal)
                /\ CloseFundsForm
    /\ UNCHANGED <<user, savingsGoals, nextId, showAddGoalForm, editingGoal, errors>>
    /\ UNCHANGED <<helperVars, pageVars>>

handleAddFunds_NoTargetCheck ==
    /\ fundingGoal # NoGoal
    /\ LET numAmount == parseFloat(amount)
       IN  IF Falsy(amount) \/ isNaN(numAmount) \/ numAmount.v <= 0
           THEN /\ error' = <<"Please enter a valid amount">>
                /\ UNCHANGED <<pending, fundingGoal, amount>>
           ELSE /\ updateSavingsAmount(fundingGoal.id,
                                       fundingGoal.currentAmount + numAmount.v)
                /\ CloseFundsForm
    /\ UNCHANGED <<user, savingsGoals, nextId, showAddGoalForm, editingGoal, errors>>
    /\ UNCHANGED <<helperVars, pageVars>>

handleAddFunds_AllowsZero ==
    /\ fundingGoal # NoGoal
    /\ LET numAmount == parseFloat(amount)
           newTotal == fundingGoal.currentAmount + numAmount.v
           remaining == fundingGoal.targetAmount - fundingGoal.currentAmount
       IN  IF Falsy(amount) \/ isNaN(numAmount) \/ numAmount.v < 0
           THEN /\ error' = <<"Please enter a valid amount">>
                /\ UNCHANGED <<pending, fundingGoal, amount>>
           ELSE IF newTotal > fundingGoal.targetAmount
           THEN /\ error' = <<"Amount exceeds remaining goal of", remaining>>
                /\ UNCHANGED <<pending, fundingGoal, amount>>
           ELSE /\ updateSavingsAmount(fundingGoal.id, newTotal)
                /\ CloseFundsForm
    /\ UNCHANGED <<user, savingsGoals, nextId, showAddGoalForm, editingGoal, errors>>
    /\ UNCHANGED <<helperVars, pageVars>>

handleAddFunds_PassesIncrement ==
    /\ fundingGoal # NoGoal
    /\ LET numAmount == parseFloat(amount)
           newTotal == fundingGoal.currentAmount + numAmount.v
           remaining == fundingGoal.targetAmount - fundingGoal.currentAmount
       IN  IF Falsy(amount) \/ isNaN(numAmount) \/ numAmount.v <= 0
           THEN /\ error' = <<"Please enter a valid amount">>
                /\ UNCHANGED <<pending, fundingGoal, amount>>
           ELSE IF newTotal > fundingGoal.targetAmount
           THEN /\ error' = <<"Amount exceeds remaining goal of", remaining>>
                /\ UNCHANGED <<pending, fundingGoal, amount>>
           ELSE /\ updateSavingsAmount(fundingGoal.id, numAmount.v)
                /\ CloseFundsForm
    /\ UNCHANGED <<user, savingsGoals, nextId, showAddGoalForm, editingGoal, errors>>
    /\ UNCHANGED <<helperVars, pageVars>>

handleAddFunds ==
    /\ fundingGoal # NoGoal
    /\ LET numAmount == parseFloat(amount)
           newTotal == fundingGoal.currentAmount + numAmount.v
           remaining == fundingGoal.targetAmount - fundingGoal.currentAmount
       IN  IF Falsy(amount) \/ isNaN(numAmount) \/ numAmount.v <= 0
           THEN /\ error' = <<"Please enter a valid amount">>
                /\ UNCHANGED <<pending, fundingGoal, amount>>
           ELSE IF newTotal > fundingGoal.targetAmount
           THEN /\ error' = <<"Amount exceeds remaining goal of", remaining>>
                /\ UNCHANGED <<pending, fundingGoal, amount>>
           ELSE /\ updateSavingsAmount(fundingGoal.id, newTotal)
                /\ CloseFundsForm
    /\ UNCHANGED <<user, savingsGoals, nextId, showAddGoalForm, editingGoal, errors>>
    /\ UNCHANGED <<helperVars, pageVars>>

\* ------------------------------------------------------------------ Spec
Init ==
    /\ expenses = <<>>
    /\ month = <<>>
    /\ budget = Budget(<<>>, EmptyObject, 0)
    /\ now = Today
    /\ result = NoResult
    /\ user = "u1"
    /\ savingsGoals = <<>>
    /\ nextId = 0
    /\ pending = {}
    /\ showAddGoalForm = FALSE
    /\ editingGoal = NoGoal
    /\ fundingGoal = NoGoal
    /\ errors = {}
    /\ amount = EmptyText
    /\ error = NoError
    /\ PagesIdle

\* the texts the goal form can hold: what a user types, and what the form is
\* filled with when it opens on a goal; a blank name, a missing date and a
\* date before today are tried beside the amounts 100 and 80, every amount
\* text beside a name and a date after today
FormInputs ==
    LET own == IF editingGoal = NoGoal
               THEN [n |-> {}, t |-> {}, c |-> {}, d |-> {}]
               ELSE [n |-> {editingGoal.name},
                     t |-> {toString(editingGoal.targetAmount)},
                     c |-> {toString(editingGoal.currentAmount)},
                     d |-> {editingGoal.targetDate}]
        all == { Fields(n, t, c, d) :
                   n \in NameTexts \cup own.n, t \in TargetAmountTexts \cup own.t,
                   c \in CurrentAmountTexts \cup own.c, d \in TargetDateTexts \cup own.d }
    IN  { f \in all :
            \/ ~Falsy(trim(f.name)) /\ f.targetDate = IsoDate(2024, 9, 13)
            \/ f.targetAmount = Numeral(100) /\ f.currentAmount = Numeral(80) }

Next ==
    \/ ClickAddGoal
    \/ \E i \in 1..Len(savingsGoals) : ClickEditGoal(i)
    \/ \E i \in 1..Len(savingsGoals) : ClickAddFunds(i)
    \/ \E i \in 1..Len(savingsGoals) : ClickDeleteGoal(i)
    \/ CancelGoalForm
    \/ CancelFundsForm
    \/ \E f \in FormInputs : handleSubmit(f)
    \/ \E t \in AmountTexts : SetAmount(t)
    \/ handleAddFunds
    \/ \E r \in pending : ReplyOk(r)
    \/ \E r \in pending : ReplyError(r)

Spec == Init /\ [][Next]_vars

(***************************************************************************)
(* Claims about the savings page.                                          *)
(***************************************************************************)
\* the goals handed to the persistence service and not yet answered
HandedGoals == { r.goal : r \in { q \in pending : q.kind # "delete" } }

\* the number typed into the funding form, when it is one
Increment == parseFloat(amount)

FundingWouldExceed ==
    /\ fundingGoal # NoGoal
    /\ ~isNaN(Increment)
    /\ fundingGoal.currentAmount + Increment.v > fundingGoal.targetAmount

FundingWithinTarget ==
    /\ fundingGoal # NoGoal
    /\ ~Falsy(amount)
    /\ ~isNaN(Increment)
    /\ Increment.v > 0
    /\ fundingGoal.currentAmount + Increment.v <= fundingGoal.targetAmount

\* C3: every savings goal handed to the persistence service has
\* 0 <= currentAmount <= targetAmount.
C3_HandedGoalsWithinTarget ==
    \A g \in HandedGoals : 0 <= g.currentAmount /\ g.currentAmount <= g.targetAmount

\* C4: a funding submit whose increment would take currentAmount above
\* targetAmount completes, sets an error message, sends nothing, changes no
\* goal and leaves the dialog open.
C4_FundingRejectsAboveTarget ==
    /\ [](FundingWouldExceed => ENABLED handleAddFunds)
    /\ [][(FundingWouldExceed /\ handleAddFunds) =>
             /\ error' # NoError
             /\ pending' = pending
             /\ savingsGoals' = savingsGoals
             /\ fundingGoal' = fundingGoal]_vars

C4_Witness ==
    /\ FundingWouldExceed
    /\ fundingGoal.targetAmount = 100
    /\ fundingGoal.currentAmount = 80
    /\ amount = Numeral(30)
    /\ error = <<"Amount exceeds remaining goal of", 20>>
    /\ pending = {}

\* C5: an accepted funding submit writes exactly currentAmount + increment
\* (the target itself included), and a successful reply stores that value;
\* with target 100 and current 80, 30 is rejected and 20 gives current 100,
\* progress 100.
C5_FundingAddsExactlyIncrement ==
    /\ [][(FundingWithinTarget /\ handleAddFunds /\ GoalIndex(fundingGoal.id) # {}) =>
             /\ fundingGoal' = NoGoal
             /\ \E r \in pending' :
                   /\ r.kind = "amount"
                   /\ r.id = fundingGoal.id
                   /\ r.amount = fundingGoal.currentAmount + Increment.v
                   /\ r.goal.currentAmount = r.amount]_vars
    /\ [][\A r \in pending : (r.kind = "amount" /\ ReplyOk(r)) =>
             \A i \in GoalIndex(r.id) : savingsGoals'[i].currentAmount = r.amount]_vars
    /\ [][( /\ fundingGoal # NoGoal
            /\ fundingGoal.targetAmount = 100
            /\ fundingGoal.currentAmount = 80
            /\ handleAddFunds ) =>
             /\ amount = Numeral(30) => (error' # NoError /\ pending' = pending)
             /\ (amount = Numeral(20) /\ GoalIndex(fundingGoal.id) # {}) =>
                   \E r \in pending' :
                      /\ r.kind = "amount"
                      /\ r.amount = 100
                      /\ calculateSavingsProgress(
                            [fundingGoal EXCEPT !.currentAmount = r.amount])
                         = [num |-> 100 * 100, den |-> 100]]_vars

C5_Witness ==
    /\ fundingGoal = NoGoal
    /\ \E r \in pending : r.kind = "amount" /\ r.amount = 100
    /\ \E i \in 1..Len(savingsGoals) :
          savingsGoals[i].currentAmount = 80 /\ savingsGoals[i].targetAmount = 100

\* the steps that change the currentAmount of a goal that stays in the list
ChangesCurrentAmount(id) ==
    \E i \in 1..Len(savingsGoals), j \in 1..Len(savingsGoals') :
        /\ savingsGoals[i].id = id
        /\ savingsGoals'[j].id = id
        /\ savingsGoals'[j].currentAmount # savingsGoals[i].currentAmount

\* C6: only the funding operation changes the currentAmount of an existing
\* goal.
C6_OnlyFundingChangesCurrentAmount ==
    [][\A id \in 1..nextId :
          ChangesCurrentAmount(id) =>
              \E r \in pending : r.kind = "amount" /\ r.id = id /\ ReplyOk(r)]_vars

\* the funding form holds no increment, a text that is no number, zero or a
\* negative number
InvalidIncrement ==
    /\ fundingGoal # NoGoal
    /\ \/ amount = EmptyText
       \/ amount = AlphaText
       \/ amount[1] = "number" /\ amount[2] <= 0

\* C16: a funding submit with a missing, non-numeric, zero or negative
\* increment sets an error message, sends nothing and changes no goal.
C16_FundingRejectsInvalidIncrement ==
    /\ [](InvalidIncrement => ENABLED handleAddFunds)
    /\ [][(InvalidIncrement /\ handleAddFunds) =>
             /\ error' # NoError
             /\ pending' = pending
             /\ savingsGoals' = savingsGoals
             /\ fundingGoal' = fundingGoal]_vars

C16_Witness ==
    /\ InvalidIncrement
    /\ amount = Numeral(0)
    /\ error = <<"Please enter a valid amount">>
    /\ savingsGoals # <<>>

\* the goals the goal form has submitted and that are not yet answered
SubmittedGoals == { r.goal : r \in { q \in pending : q.kind \in {"insert", "update"} } }

\* C17: every goal the goal form submits, on create and on edit, has
\* targetDate >= startDate.
C17_TargetDateNotBeforeStartDate ==
    \A g \in SubmittedGoals : DayOfYear(g.targetDate) >= DayOfYear(g.startDate)

(***************************************************************************)
(* The expenses page: context/AppContext.tsx (expenses), ExpenseList,      *)
(* ExpenseForm and the expenses table of the persistence service:          *)
(* SpecExpenses.  A stored expense is [id, amount, description, category,  *)
(* date, userId]; createdAt is never read.                                 *)
(***************************************************************************)
MaxStoredExpenses == 2    \* expenses created on the expenses page

ExpenseAmountTexts ==
    {EmptyText, BlankText, AlphaText, Numeral(0), Numeral(-5), Numeral(50)}
DescriptionTexts == {EmptyText, BlankText, AlphaText}
ExpenseDateTexts == {<<>>, IsoDate(2024, 6, 1)}
ExpenseCategories == {"other", "food"}

\* what the expenses page leaves alone
offExpensesPage ==
    <<month, budget, now, result, savingsGoals, showAddGoalForm, editingGoal,
      fundingGoal, amount, error, budgets, showBudgetForm, totalBudget,
      categoryBudgets, authVars>>

\* the CHECK constraint of table expenses
StoreAcceptsExpense(expense) == expense.amount > 0

ExpenseRequest(kind, id, expense) == [kind |-> kind, id |-> id, expense |-> expense]

\* ------------------------------------------------------------ AppContext
addExpense(expenseData) ==
    IF user = NULL THEN UNCHANGED <<pending, nextId>>
    ELSE /\ nextId < MaxStoredExpenses
         /\ nextId' = nextId + 1
         /\ Send(ExpenseRequest("addExpense", nextId + 1,
                                expenseData @@ [id |-> nextId + 1, userId |-> user]))

updateExpense(expense) ==
    /\ UNCHANGED nextId
    /\ IF user = NULL THEN UNCHANGED pending
       ELSE Send(ExpenseRequest("updateExpense", expense.id, expense))

deleteExpense(id) ==
    /\ UNCHANGED nextId
    /\ IF user = NULL THEN UNCHANGED pending
       ELSE Send(ExpenseRequest("deleteExpense", id, NoExpense))

\* the setState updater each operation runs when its request succeeded
AppliedExpense(r, list) ==
    CASE r.kind = "addExpense" -> <<r.expense>> \o list
      [] r.kind = "updateExpense" ->
            [i \in 1..Len(list) |-> IF list[i].id = r.id THEN r.expense ELSE list[i]]
      [] r.kind = "deleteExpense" -> SelectSeq(list, LAMBDA e : e.id # r.id)

ExpenseReplyOk(r) ==
    /\ r \in pending
    /\ r.kind \in {"addExpense", "updateExpense"} => StoreAcceptsExpense(r.expense)
    /\ pending' = pending \ {r}
    /\ expenses' = AppliedExpense(r, expenses)
    /\ UNCHANGED <<user, nextId, errors, showAddExpense, editingExpense>>
    /\ UNCHANGED offExpensesPage

ExpenseReplyError(r) ==
    /\ r \in pending
    /\ pending' = pending \ {r}
    /\ UNCHANGED <<expenses, user, nextId, errors, showAddExpense, editingExpense>>
    /\ UNCHANGED offExpensesPage

\* ----------------------------------------------------------- ExpenseList
ExpenseFormMounted == showAddExpense \/ editingExpense # NoExpense

ClickAddExpense ==
    /\ user # NULL
    /\ ~ExpenseFormMounted
    /\ showAddExpense' = TRUE
    /\ UNCHANGED <<expenses, user, nextId, pending, errors, editingExpense>>
    /\ UNCHANGED offExpensesPage

ClickEditExpense(i) ==
    /\ user # NULL
    /\ ~ExpenseFormMounted
    /\ editingExpense' = expenses[i]
    /\ UNCHANGED <<expenses, user, nextId, pending, errors, showAddExpense>>
    /\ UNCHANGED offExpensesPage

\* the trash button and the Delete button of the confirmation
ClickDeleteExpense(i) ==
    /\ user # NULL
    /\ ~ExpenseFormMounted
    /\ deleteExpense(expenses[i].id)
    /\ UNCHANGED <<expenses, user, errors, showAddExpense, editingExpense>>
    /\ UNCHANGED offExpensesPage

\* onClose of the expense form: it unmounts, its state is discarded
CloseExpenseForm ==
    /\ showAddExpense' = FALSE
    /\ editingExpense' = NoExpense
    /\ errors' = {}

CancelExpenseForm ==
    /\ ExpenseFormMounted
    /\ CloseExpenseForm
    /\ UNCHANGED <<expenses, user, nextId, pending>>
    /\ UNCHANGED offExpensesPage

\* ----------------------------------------------------------- ExpenseForm
ExpenseFields(amt, description, category, date) ==
    [amount |-> amt, description |-> description, category |-> category,
     date |-> date]

ExpenseForm_validateForm_AllowsZero(f) ==
    LET amountErrors ==
            IF Falsy(f.amount) \/ isNaN(Number(f.amount))
                  \/ Lt(Number(f.amount), Num(0))
            THEN {<<"amount", "Please enter a valid amount greater than zero">>}
            ELSE {}
        descriptionErrors ==
            IF Falsy(trim(f.description))
            THEN {<<"description", "Description is required">>} ELSE {}
        dateErrors ==
            IF f.date = <<>> THEN {<<"date", "Date is required">>} ELSE {}
    IN  amountErrors \cup descriptionErrors \cup dateErrors

\* newErrors, as the set of <<field, message>> it ends with
ExpenseForm_validateForm(f) ==
    LET amountErrors ==
            IF Falsy(f.amount) \/ isNaN(Number(f.amount))
                  \/ Le(Number(f.amount), Num(0))
            THEN {<<"amount", "Please enter a valid amount greater than zero">>}
            ELSE {}
        descriptionErrors ==
            IF Falsy(trim(f.description))
            THEN {<<"description", "Description is required">>} ELSE {}
        dateErrors ==
            IF f.date = <<>> THEN {<<"date", "Date is required">>} ELSE {}
    IN  amountErrors \cup descriptionErrors \cup dateErrors

ExpenseData(f) ==
    [amount |-> Number(f.amount).v, description |-> f.description,
     category |-> f.category, date |-> f.date]

\* The texts of the fields are the form's own state; each can be retyped
\* before a submit, so a submit takes them as its input f.
ExpenseForm_handleSubmit(f) ==
    /\ ExpenseFormMounted
    /\ IF ExpenseForm_validateForm(f) # {}
       THEN /\ errors' = ExpenseForm_validateForm(f)
            /\ UNCHANGED <<pending, nextId, showAddExpense, editingExpense>>
       ELSE /\ IF editingExpense # NoExpense
               THEN updateExpense(ExpenseData(f) @@ editingExpense)
               ELSE addExpense(ExpenseData(f))
            /\ CloseExpenseForm
    /\ UNCHANGED <<expenses, user>>
    /\ UNCHANGED offExpensesPage

InitExpenses ==
    /\ expenses = <<>>
    /\ month = <<>>
    /\ budget = Budget(<<>>, EmptyObject, 0)
    /\ now = Today
    /\ result = NoResult
    /\ user = "u1"
    /\ savingsGoals = <<>>
    /\ nextId = 0
    /\ pending = {}
    /\ showAddGoalForm = FALSE
    /\ editingGoal = NoGoal
    /\ fundingGoal = NoGoal
    /\ errors = {}
    /\ amount = EmptyText
    /\ error = NoError
    /\ PagesIdle

\* an amount text that is missing, not a number, zero or negative
InvalidAmountText(t) ==
    \/ t \in {EmptyText, BlankText, AlphaText}
    \/ t[1] = "number" /\ t[2] <= 0

\* the texts the expense form can hold: what a user types, and what the form
\* is filled with when it opens on an expense (the fields of a stored expense
\* are among these texts); every amount text is tried beside a description
\* and a date, a missing description and a missing date beside the amount 50
ExpenseInputs ==
    { f \in { ExpenseFields(a, d, c, t) :
                a \in ExpenseAmountTexts, d \in DescriptionTexts,
                c \in ExpenseCategories, t \in ExpenseDateTexts } :
        \/ ~Falsy(trim(f.description)) /\ f.date # <<>>
        \/ f.amount = Numeral(50) }

InvalidAmountInputs == { f \in ExpenseInputs : InvalidAmountText(f.amount) }

NextExpenses ==
    \/ ClickAddExpense
    \/ \E i \in 1..Len(expenses) : ClickEditExpense(i)
    \/ \E i \in 1..Len(expenses) : ClickDeleteExpense(i)
    \/ CancelExpenseForm
    \/ \E f \in ExpenseInputs : ExpenseForm_handleSubmit(f)
    \/ \E r \in pending : ExpenseReplyOk(r)
    \/ \E r \in pending : ExpenseReplyError(r)

SpecExpenses == InitExpenses /\ [][NextExpenses]_vars

\* the expenses the expense form has passed to addExpense or updateExpense
\* and that are not yet answered
SubmittedExpenses ==
    { r.expense : r \in { q \in pending : q.kind \in {"addExpense", "updateExpense"} } }

\* C18: every expense the expense form passes to addExpense or updateExpense
\* has amount > 0, a non-blank description and a non-empty date; a submit
\* with a missing, non-numeric, zero or negative amount calls neither and
\* leaves the form open.
C18_SubmittedExpensesValid ==
    /\ [](\A e \in SubmittedExpenses :
            /\ e.amount > 0
            /\ e.description \notin {EmptyText, BlankText}
            /\ e.date # <<>>)
    /\ [][\A f \in InvalidAmountInputs :
            ExpenseForm_handleSubmit(f) =>
                /\ pending' = pending
                /\ expenses' = expenses
                /\ showAddExpense' = showAddExpense
                /\ editingExpense' = editingExpense
                /\ ExpenseFormMounted']_vars

C18_Witness ==
    /\ editingExpense # NoExpense
    /\ editingExpense.amount = 50
    /\ <<"amount", "Please enter a valid amount greater than zero">> \in errors
    /\ pending = {}

C18_WitnessSubmitted ==
    /\ \E e \in SubmittedExpenses : e.amount = 50 /\ e.id = 2
    /\ ~ExpenseFormMounted

(***************************************************************************)
(* The budget page: context/AppContext.tsx (budgets), BudgetOverview,      *)
(* BudgetForm and the budgets table of the persistence service:            *)
(* SpecBudget.  `month` is state.currentMonth.                             *)
(***************************************************************************)
BudgetMonths == {MonthKey(2024, 6), MonthKey(2024, 7)}
TotalBudgetTexts ==
    {EmptyText, BlankText, AlphaText, Numeral(-10), Numeral(0), Numeral(100)}

\* the categories whose fields are typed into (the fields of the others stay
\* ''), and the texts typed into them
BudgetCategories == {"food", "housing"}
CategoryBudgetTexts(category) ==
    IF category = "food"
    THEN {EmptyText, BlankText, AlphaText, Numeral(-5), Numeral(0), Numeral(40)}
    ELSE {EmptyText, Numeral(40)}

\* what the budget page leaves alone
offBudgetPage ==
    <<expenses, budget, now, result, savingsGoals, nextId, showAddGoalForm,
      editingGoal, fundingGoal, errors, amount, error, showAddExpense,
      editingExpense, authVars>>

\* the CHECK constraint of table budgets
StoreAcceptsBudget(b) == b.totalBudget >= 0

\* ------------------------------------------------------------ AppContext
\* The select of the month's row and the update or insert that follows are
\* answered by the persistence service; the state changes once, after the
\* last reply.
updateBudget(b) ==
    IF user = NULL THEN UNCHANGED pending
    ELSE Send([kind |-> "updateBudget", budget |-> b @@ [userId |-> user]])

\* the setState updater: replace the budget of that month, else append
AppliedBudget(r, list) ==
    LET existing == { i \in 1..Len(list) : list[i].month = r.budget.month }
    IN  IF existing # {}
        THEN LET existingIndex == CHOOSE i \in existing : \A j \in existing : i <= j
             IN  [list EXCEPT ![existingIndex] = r.budget]
        ELSE Append(list, r.budget)

BudgetReplyOk(r) ==
    /\ r \in pending
    /\ StoreAcceptsBudget(r.budget)
    /\ pending' = pending \ {r}
    /\ budgets' = AppliedBudget(r, budgets)
    /\ UNCHANGED <<user, month, showBudgetForm, totalBudget, categoryBudgets>>
    /\ UNCHANGED offBudgetPage

BudgetReplyError(r) ==
    /\ r \in pending
    /\ pending' = pending \ {r}
    /\ UNCHANGED <<user, month, budgets, showBudgetForm, totalBudget, categoryBudgets>>
    /\ UNCHANGED offBudgetPage

\* state.budgets.find(b => b.month === state.currentMonth)
CurrentBudgets == { i \in 1..Len(budgets) : budgets[i].month = month }
HasCurrentBudget == CurrentBudgets # {}
currentBudget ==
    budgets[CHOOSE i \in CurrentBudgets : \A j \in CurrentBudgets : i <= j]

\* -------------------------------------------------------- BudgetOverview
\* the Set Budget button: the form mounts, its fields filled from the budget
\* of the current month
ClickSetBudget ==
    /\ user # NULL
    /\ ~showBudgetForm
    /\ showBudgetForm' = TRUE
    /\ totalBudget' = IF HasCurrentBudget THEN toString(currentBudget.totalBudget)
                      ELSE EmptyText
    /\ categoryBudgets' =
          [c \in BudgetCategories |->
              IF /\ HasCurrentBudget
                 /\ c \in DOMAIN currentBudget.categories
                 /\ currentBudget.categories[c] # 0
              THEN toString(currentBudget.categories[c])
              ELSE EmptyText]
    /\ UNCHANGED <<user, month, pending, budgets>>
    /\ UNCHANGED offBudgetPage

\* onClose of the budget form: it unmounts, its state is discarded
CloseBudgetForm ==
    /\ showBudgetForm' = FALSE
    /\ totalBudget' = EmptyText
    /\ categoryBudgets' = EmptyObject

CancelBudgetForm ==
    /\ showBudgetForm
    /\ CloseBudgetForm
    /\ UNCHANGED <<user, month, pending, budgets>>
    /\ UNCHANGED offBudgetPage

\* ------------------------------------------------------------ BudgetForm
setTotalBudget(t) ==
    /\ showBudgetForm
    /\ totalBudget' = t
    /\ UNCHANGED <<user, month, pending, budgets, showBudgetForm, categoryBudgets>>
    /\ UNCHANGED offBudgetPage

handleCategoryBudgetChange(category, value) ==
    /\ showBudgetForm
    /\ categoryBudgets' = [categoryBudgets EXCEPT ![category] = value]
    /\ UNCHANGED <<user, month, pending, budgets, showBudgetForm, totalBudget>>
    /\ UNCHANGED offBudgetPage

parsedCategoryBudgets_NoSignCheck ==
    LET kept == { c \in DOMAIN categoryBudgets :
                    /\ ~Falsy(categoryBudgets[c])
                    /\ ~isNaN(Number(categoryBudgets[c])) }
    IN  [c \in kept |-> Number(categoryBudgets[c]).v]

\* the entries that are non-empty, numbers and > 0, as numbers
parsedCategoryBudgets ==
    LET kept == { c \in DOMAIN categoryBudgets :
                    /\ ~Falsy(categoryBudgets[c])
                    /\ ~isNaN(Number(categoryBudgets[c]))
                    /\ Gt(Number(categoryBudgets[c]), Num(0)) }
    IN  [c \in kept |-> Number(categoryBudgets[c]).v]

\* currentBudget?.id || crypto.randomUUID(): the value drawn is uuid
newBudget(uuid) ==
    [id |-> IF HasCurrentBudget THEN currentBudget.id ELSE uuid,
     month |-> month,
     categories |-> parsedCategoryBudgets,
     totalBudget |-> Number(totalBudget).v]

BudgetForm_handleSubmit(uuid) ==
    /\ showBudgetForm
    /\ IF Falsy(totalBudget) \/ isNaN(Number(totalBudget))
             \/ Lt(Number(totalBudget), Num(0))
       THEN UNCHANGED <<pending, showBudgetForm, totalBudget, categoryBudgets>>
       ELSE /\ updateBudget(newBudget(uuid))
            /\ CloseBudgetForm
    /\ UNCHANGED <<user, month, budgets>>
    /\ UNCHANGED offBudgetPage

InitBudget ==
    /\ expenses = <<>>
    /\ month \in BudgetMonths
    /\ budget = Budget(<<>>, EmptyObject, 0)
    /\ now = Today
    /\ result = NoResult
    /\ user = "u1"
    /\ savingsGoals = <<>>
    /\ nextId = 0
    /\ pending = {}
    /\ showAddGoalForm = FALSE
    /\ editingGoal = NoGoal
    /\ fundingGoal = NoGoal
    /\ errors = {}
    /\ amount = EmptyText
    /\ error = NoError
    /\ PagesIdle

NextBudget ==
    \/ ClickSetBudget
    \/ CancelBudgetForm
    \/ \E t \in TotalBudgetTexts : setTotalBudget(t)
    \/ \E c \in BudgetCategories :
          \E t \in CategoryBudgetTexts(c) : handleCategoryBudgetChange(c, t)
    \/ \E uuid \in Uuids : BudgetForm_handleSubmit(uuid)
    \/ \E r \in pending : BudgetReplyOk(r)
    \/ \E r \in pending : BudgetReplyError(r)

SpecBudget == InitBudget /\ [][NextBudget]_vars

\* the budgets passed to updateBudget and not yet answered
SubmittedBudgets == { r.budget : r \in pending }

\* a total that is missing, not a number or negative; an entry that is
\* missing, blank, not a number, zero or negative
InvalidTotalText(t) ==
    \/ t \in {EmptyText, AlphaText}
    \/ t[1] = "number" /\ t[2] < 0

OmittedEntryText(t) ==
    \/ t \in {EmptyText, BlankText, AlphaText}
    \/ t[1] = "number" /\ t[2] <= 0

SubmitBudget == \E uuid \in Uuids : BudgetForm_handleSubmit(uuid)

\* C19: every budget the budget form passes to updateBudget has
\* totalBudget >= 0 and only category limits >= 0, the missing, blank,
\* non-numeric, zero and negative entries being left out of the mapping; a
\* submit whose total is missing, non-numeric or negative calls nothing and
\* leaves the form open.
C19_SubmittedBudgetsValid ==
    /\ [](\A b \in SubmittedBudgets :
            /\ b.totalBudget >= 0
            /\ \A c \in DOMAIN b.categories : b.categories[c] >= 0)
    /\ [][(SubmitBudget /\ pending' # pending) =>
            \E r \in pending' \ pending :
                DOMAIN r.budget.categories =
                    { c \in BudgetCategories : ~OmittedEntryText(categoryBudgets[c]) }]_vars
    /\ [][(showBudgetForm /\ InvalidTotalText(totalBudget) /\ SubmitBudget) =>
            /\ pending' = pending
            /\ budgets' = budgets
            /\ showBudgetForm']_vars

C19_Witness ==
    /\ \E b \in SubmittedBudgets :
          /\ b.totalBudget = 0
          /\ DOMAIN b.categories = {"housing"}
          /\ b.categories["housing"] = 40
    /\ budgets # <<>>
    /\ ~showBudgetForm

C19_WitnessInvalidTotal ==
    /\ showBudgetForm
    /\ totalBudget = Numeral(-10)
    /\ categoryBudgets["food"] = Numeral(40)
    /\ pending = {}

(***************************************************************************)
(* The aggregation helpers on a collection and on its permutations, with   *)
(* amounts that have a fraction: SpecOrder.  `expenses` is the collection  *)
(* E; a call passes a permutation E' of it, and `result.arg` is the        *)
(* permutation.                                                            *)
(***************************************************************************)
FloatExpensePool ==
    { Expense(Tenth, "food", IsoDate(2024, 6, 1)),
      Expense(TwoTenths, "food", IsoDate(2024, 6, 15)),
      Expense(ThreeTenths, "food", IsoDate(2024, 6, 2)),
      Expense(ThreeTenths, "housing", IsoDate(2024, 7, 1)),
      Expense(Thirty, "housing", IsoDate(2024, 6, 2)) }

OrderMonths == {MonthKey(2024, 6), MonthKey(2024, 7)}

InitOrder ==
    /\ expenses \in SeqsUpTo(FloatExpensePool, MaxExpenses)
    /\ month \in OrderMonths
    /\ budget = Budget(<<>>, EmptyObject, 0)
    /\ now = NoDate
    /\ result = NoResult
    /\ SavingsIdle
    /\ PagesIdle

\* the collection es in the order p
Permuted(es, p) == [i \in 1..Len(es) |-> es[p[i]]]

NextOrder ==
    \E p \in Permutations(1..Len(expenses)) :
        \/ CallWith("filterExpensesByMonth", p,
                    filterExpensesByMonth(Permuted(expenses, p), month))
        \/ CallWith("calculateMonthlyTotal", p,
                    Float_calculateMonthlyTotal(Permuted(expenses, p), month))
        \/ CallWith("calculateExpensesByCategory", p,
                    Float_calculateExpensesByCategory(Permuted(expenses, p), month))

SpecOrder == InitOrder /\ [][NextOrder]_vars

Elements(list) == { list[i] : i \in 1..Len(list) }

\* amounts that are whole numbers
WholeAmounts(es) == \A i \in 1..Len(es) : es[i].amount = Thirty

SameSelection ==
    result.op = "filterExpensesByMonth" =>
        /\ Elements(result.val) = Elements(filterExpensesByMonth(expenses, month))
        /\ Len(result.val) = Len(filterExpensesByMonth(expenses, month))

\* C22: for every permutation E' of E and every month, calculateMonthlyTotal
\* and calculateExpensesByCategory return for E' the values they return for
\* E, and filterExpensesByMonth selects the same expenses.
C22_OrderOfCollectionIrrelevant ==
    /\ SameSelection
    /\ result.op = "calculateMonthlyTotal" =>
          result.val = Float_calculateMonthlyTotal(expenses, month)
    /\ result.op = "calculateExpensesByCategory" =>
          result.val = Float_calculateExpensesByCategory(expenses, month)

\* what does hold: the same selection, the same categories, and the same
\* sums when the amounts are whole numbers
C22_OrderIrrelevantUpToRounding ==
    /\ SameSelection
    /\ result.op = "calculateMonthlyTotal" =>
          (WholeAmounts(expenses) =>
              result.val = Float_calculateMonthlyTotal(expenses, month))
    /\ result.op = "calculateExpensesByCategory" =>
          /\ DOMAIN result.val = DOMAIN Float_calculateExpensesByCategory(expenses, month)
          /\ WholeAmounts(expenses) =>
                result.val = Float_calculateExpensesByCategory(expenses, month)

C22_WitnessWholeAmounts ==
    /\ result.op = "calculateMonthlyTotal"
    /\ Len(expenses) = 3
    /\ WholeAmounts(expenses)
    /\ result.val = Binary64(<<5, 10>>, 56)

\* C23: the lowest spending month is an entry of least total among the
\* summaries with total > 0, and "no data" when every summary has total 0;
\* the highest spending month is an entry of greatest total among all
\* summaries; a lowest that is shown has a total <= the highest total.
C23_LowestAndHighestMonth ==
    result.op = "SpendingStats" =>
        LET summaries == getLastSixMonthsSummary(expenses, now)
            entries == { summaries[j] : j \in 1..Len(summaries) }
            spent == { e \in entries : e.total > 0 }
            highest == result.val.highestMonth
            lowest == result.val.lowestMonth
        IN  /\ highest \in entries
            /\ \A e \in entries : e.total <= highest.total
            /\ (\A e \in entries : e.total = 0) => lowest = <<>>
            /\ lowest = <<>> => spent = {}
            /\ lowest # <<>> =>
                  /\ lowest[1] \in spent
                  /\ \A e \in spent : lowest[1].total <= e.total
                  /\ lowest[1].total <= highest.total

C23_Witness ==
    /\ result.op = "SpendingStats"
    /\ result.val.lowestMonth # <<>>
    /\ result.val.lowestMonth[1].total = 30
    /\ result.val.highestMonth.total = 100

C23_WitnessNoData ==
    /\ result.op = "SpendingStats"
    /\ expenses # <<>>
    /\ result.val.lowestMonth = <<>>
    /\ result.val.highestMonth.total = 0

\* C24: every entry of the rolling summary agrees with the aggregation
\* helpers run on its own month key: its total is calculateMonthlyTotal and
\* its categories are calculateExpensesByCategory of the same expenses and
\* that key.
C24_SummaryAgreesWithAggregation ==
    result.op = "getLastSixMonthsSummary" =>
        \A j \in 1..Len(result.val) :
            /\ result.val[j].total =
                  calculateMonthlyTotal(expenses, result.val[j].month)
            /\ result.val[j].categories =
                  calculateExpensesByCategory(expenses, result.val[j].month)

C24_Witness ==
    /\ result.op = "getLastSixMonthsSummary"
    /\ Len(expenses) = 2
    /\ \E j \in 1..Len(result.val) :
          /\ result.val[j].month = MonthKey(2024, 1)
          /\ result.val[j].total = 150
          /\ result.val[j].categories = [food |-> 100, housing |-> 50]
    /\ \E j \in 1..Len(result.val) : result.val[j].categories = EmptyObject

\* the number written by the characters from..to of a date or month key
DigitValue(ch) == CHOOSE n \in 0..9 : Digits[n + 1] = ch

RECURSIVE NumberAt(_, _, _)
NumberAt(s, from, to) ==
    IF from > to THEN 0
    ELSE NumberAt(s, from, to - 1) * 10 + DigitValue(s[to])

\* YYYY-MM
CanonicalKey(mk) == Len(mk) = 7 /\ mk[5] = "-"

\* the year and month of the ISO date equal those of the canonical key
InMonth(date, mk) ==
    /\ NumberAt(date, 1, 4) = NumberAt(mk, 1, 4)
    /\ NumberAt(date, 6, 7) = NumberAt(mk, 6, 7)

\* the canonical keys of the months in which es has an expense
MonthsPresent(es) == { SubSeq(es[i].date, 1, 7) : i \in 1..Len(es) }

RECURSIVE SumOfMonthlyTotals(_, _)
SumOfMonthlyTotals(es, months) ==
    IF months = {} THEN 0
    ELSE LET mk == CHOOSE k \in months : TRUE
         IN  calculateMonthlyTotal(es, mk) + SumOfMonthlyTotals(es, months \ {mk})

MaxBudgets == 1            \* budgets in state.budgets
MaxOverviewExpenses == 2   \* expenses in state.expenses

OverviewMonths == {MonthKey(2024, 6), MonthKey(2024, 7), MonthKey(2023, 11)}

InitOverview ==
    /\ expenses \in SeqsUpTo(ExpensePool, MaxOverviewExpenses)
    /\ month \in OverviewMonths
    /\ budget = Budget(<<>>, EmptyObject, 0)
    /\ now = NoDate
    /\ result = NoResult
    /\ user = "u1"
    /\ savingsGoals = <<>>
    /\ nextId = 0
    /\ pending = {}
    /\ showAddGoalForm = FALSE
    /\ editingGoal = NoGoal
    /\ fundingGoal = NoGoal
    /\ errors = {}
    /\ amount = EmptyText
    /\ error = NoError
    /\ showAddExpense = FALSE
    /\ editingExpense = NoExpense
    /\ budgets \in SeqsUpTo(BudgetPool, MaxBudgets)
    /\ showBudgetForm = FALSE
    /\ totalBudget = EmptyText
    /\ categoryBudgets = EmptyObject
    /\ AuthIdle

\* a call or a render: it reads the state and changes none of it
Reads(op, arg, val) ==
    /\ result = NoResult
    /\ result' = [op |-> op, arg |-> arg, val |-> val]
    /\ UNCHANGED <<expenses, month, budget, now>>
    /\ UNCHANGED <<savingsVars, pageVars>>

\* getActiveCategories(): the keys of the budget and the categories spent on
getActiveCategories(cb, monthlyExpenses) ==
    DOMAIN cb.categories
        \cup { monthlyExpenses[i].category : i \in 1..Len(monthlyExpenses) }

getCategoryTotal(monthlyExpenses, category) ==
    ReduceAmount(SelectSeq(monthlyExpenses, LAMBDA e : e.category = category), 0)

\* budgeted ? (spent / budgeted) * 100 : spent > 0 ? 100 : 0
categoryProgress(cb, monthlyExpenses, category) ==
    LET budgeted == IF category \in DOMAIN cb.categories
                    THEN cb.categories[category] ELSE 0
        spent == getCategoryTotal(monthlyExpenses, category)
    IN  IF budgeted # 0 THEN Ratio(spent, budgeted)
        ELSE IF spent > 0 THEN [num |-> 100, den |-> 1] ELSE Zero

\* the values computed by one render of BudgetOverview
BudgetOverview(uuid) ==
    LET cb == getCurrentBudget(budgets, month, uuid)
        monthlyExpenses == filterExpensesByMonth(expenses, month)
    IN  [currentBudget |-> cb,
         progress |-> calculateBudgetProgress(cb, expenses),
         categoryProgress |->
            [c \in getActiveCategories(cb, monthlyExpenses) |->
                categoryProgress(cb, monthlyExpenses, c)]]

NextOverview ==
    \E uuid \in Uuids :
        \/ Reads("getCurrentBudget", uuid, getCurrentBudget(budgets, month, uuid))
        \/ Reads("BudgetOverview", uuid, BudgetOverview(uuid))
        \/ \E category \in CategoryArgs :
              Reads("calculateCategoryBudgetProgress", category,
                    calculateCategoryBudgetProgress(
                        getCurrentBudget(budgets, month, uuid), expenses, category))

SpecOverview == InitOverview /\ [][NextOverview]_vars

\* the positions of the stored budgets of the current month
StoredForMonth == { i \in 1..Len(budgets) : budgets[i].month = month }

IsDefaultBudget(b) ==
    /\ b.month = month
    /\ b.totalBudget = 0
    /\ b.categories = EmptyObject

C26_WitnessStored ==
    /\ result.op = "getCurrentBudget"
    /\ StoredForMonth # {}
    /\ result.val.totalBudget = 200

C26_WitnessDefaultProgress ==
    /\ result.op = "calculateCategoryBudgetProgress"
    /\ StoredForMonth = {}
    /\ result.arg = "food"
    /\ calculateMonthlyTotal(expenses, month) > 0

\* two quotients with the same value
SameRatio(a, b) == a.num * b.den = b.num * a.den

\* C27: for every active category, the category progress that the budget
\* overview computes equals calculateCategoryBudgetProgress of the current
\* budget, the expenses and that category, a category with spending and no
\* limit included.
C27_OverviewProgressIsHelperProgress ==
    result.op = "BudgetOverview" =>
        \A c \in DOMAIN result.val.categoryProgress :
            SameRatio(result.val.categoryProgress[c],
                      calculateCategoryBudgetProgress(result.val.currentBudget,
                                                      expenses, c))

\* the same for the categories with a positive limit or without spending
C27_OverviewProgressWithLimit ==
    result.op = "BudgetOverview" =>
        \A c \in DOMAIN result.val.categoryProgress :
            ( \/ LimitOf(result.val.currentBudget, c) > 0
              \/ getCategoryTotal(filterExpensesByMonth(expenses, month), c) <= 0 )
            => SameRatio(result.val.categoryProgress[c],
                         calculateCategoryBudgetProgress(result.val.currentBudget,
                                                         expenses, c))

C27_WitnessWithLimit ==
    /\ result.op = "BudgetOverview"
    /\ "food" \in DOMAIN result.val.categoryProgress
    /\ result.val.currentBudget.totalBudget = 200
    /\ result.val.categoryProgress["food"] = Ratio(150, 200)

\* the stored goal that a funding request in flight is about
StoredGoalOf(r) == savingsGoals[CHOOSE i \in GoalIndex(r.id) : TRUE]

\* C28: the funding check and the value written both use the goal that was
\* passed when the funding dialog opened: a funding submit that sends a
\* request passed the check currentAmount + increment <= targetAmount on that
\* snapshot and writes the snapshot's currentAmount + increment, and a submit
\* that passes the check on the snapshot sends one, whatever the stored goal
\* has become meanwhile.
C28_FundingUsesDialogSnapshot ==
    /\ [][(handleAddFunds /\ pending' # pending) =>
             /\ fundingGoal # NoGoal
             /\ fundingGoal.currentAmount + Increment.v <= fundingGoal.targetAmount
             /\ \A r \in pending' \ pending :
                   /\ r.kind = "amount"
                   /\ r.id = fundingGoal.id
                   /\ r.amount = fundingGoal.currentAmount + Increment.v]_vars
    /\ [][(handleAddFunds /\ FundingWithinTarget /\ GoalIndex(fundingGoal.id) # {}) =>
             \E r \in pending' :
                /\ r.kind = "amount"
                /\ r.id = fundingGoal.id
                /\ r.amount = fundingGoal.currentAmount + Increment.v]_vars

\* a funding request in flight whose value is above the stored targetAmount
C28_Witness ==
    \E r \in pending :
        /\ r.kind = "amount"
        /\ GoalIndex(r.id) # {}
        /\ r.amount > StoredGoalOf(r).targetAmount

\* a funding request in flight whose value is not above the stored
\* currentAmount, so is not the stored currentAmount plus a positive increment
C28_WitnessNotStoredPlusIncrement ==
    \E r \in pending :
        /\ r.kind = "amount"
        /\ GoalIndex(r.id) # {}
        /\ r.amount <= StoredGoalOf(r).currentAmount


(***************************************************************************)
(* App.tsx and AuthForm.tsx: what AppContent renders, the session          *)
(* listener of the context, the navigation of the header and the submit    *)
(* of the authentication form.                                             *)
(*                                                                         *)
(* AppContent renders the authentication form exactly while state.user is  *)
(* null, so the form is mounted iff user = NULL; when a session arrives    *)
(* the form unmounts, its state is discarded, and the continuation of a    *)
(* call it left behind still runs but its state setters have no effect     *)
(* (live = FALSE).  activePage belongs to AppContent and outlives the      *)
(* form.  The header's own copy of the form is behind a button that is     *)
(* rendered only without a user, inside a header that is rendered only     *)
(* with one, so it never opens.                                            *)
(***************************************************************************)

MaxAuthCalls == 2          \* sign-in / sign-up calls awaiting their reply

PageNames == {"expenses", "budget", "savings", "insights"}
PageArgs == PageNames \cup {"settings", "", "Expenses"}
RecordPages == {"ExpenseList", "BudgetOverview", "SavingsGoalList", "SpendingInsights"}
Sessions == {NULL, "u1"}
\* err.message of a failed call; "" stands for an error without a message
ErrorMessages == {"", "Invalid login credentials"}

renderActivePage(name) ==
    CASE name = "expenses" -> "ExpenseList"
      [] name = "budget" -> "BudgetOverview"
      [] name = "savings" -> "SavingsGoalList"
      [] name = "insights" -> "SpendingInsights"
      [] OTHER -> "ExpenseList"

AppContent_NoAuthGate == {"Header", renderActivePage(activePage)}

\* the components AppContent returns
AppContent ==
    IF user = NULL
    THEN {"AuthForm"}
    ELSE {"Header", renderActivePage(activePage)}

AuthFormMounted == "AuthForm" \in AppContent
HeaderMounted == "Header" \in AppContent

\* the setters of an unmounted form do nothing
Orphaned(calls) == { [c EXCEPT !.live = FALSE] : c \in calls }

offAuth ==
    <<month, budget, now, nextId, pending, showAddGoalForm, editingGoal,
      fundingGoal, errors, amount, error, showAddExpense, editingExpense,
      showBudgetForm, totalBudget, categoryBudgets>>

InitAuth ==
    /\ user \in Sessions
    /\ expenses \in {<<>>} \cup { <<e>> : e \in ExpensePool }
    /\ month = <<>>
    /\ budget = Budget(<<>>, EmptyObject, 0)
    /\ now = NoDate
    /\ result = NoResult
    /\ savingsGoals = <<>>
    /\ nextId = 0
    /\ pending = {}
    /\ showAddGoalForm = FALSE
    /\ editingGoal = NoGoal
    /\ fundingGoal = NoGoal
    /\ errors = {}
    /\ amount = EmptyText
    /\ error = NoError
    /\ showAddExpense = FALSE
    /\ editingExpense = NoExpense
    /\ budgets \in {<<>>} \cup { <<b>> : b \in BudgetPool }
    /\ showBudgetForm = FALSE
    /\ totalBudget = EmptyText
    /\ categoryBudgets = EmptyObject
    /\ AuthIdle

\* the listener registered by AppProvider
onAuthStateChange(session) ==
    /\ IF session # NULL
       THEN /\ user' = session
            /\ UNCHANGED <<expenses, budgets, savingsGoals>>
       ELSE /\ user' = NULL
            /\ expenses' = <<>>
            /\ budgets' = <<>>
            /\ savingsGoals' = <<>>
    /\ IF AuthFormMounted /\ session # NULL
       THEN /\ isLogin' = TRUE
            /\ authError' = ""
            /\ loading' = FALSE
            /\ authCalls' = Orphaned(authCalls)
       ELSE UNCHANGED <<isLogin, authError, loading, authCalls>>
    /\ UNCHANGED <<activePage, authOutcome, result, offAuth>>

setActivePage(page) ==
    /\ HeaderMounted
    /\ activePage' = page
    /\ UNCHANGED <<expenses, budgets, savingsGoals, user, result, offAuth>>
    /\ UNCHANGED <<isLogin, authError, loading, authCalls, authOutcome>>

\* signOut ends the session, and the listener is told
handleLogout ==
    /\ HeaderMounted
    /\ onAuthStateChange(NULL)

setIsLogin ==
    /\ AuthFormMounted
    /\ isLogin' = ~isLogin
    /\ UNCHANGED <<expenses, budgets, savingsGoals, user, result, offAuth>>
    /\ UNCHANGED <<activePage, authError, loading, authCalls, authOutcome>>

\* the submit button is disabled while loading
AuthForm_handleSubmit ==
    /\ AuthFormMounted
    /\ ~loading
    /\ Cardinality(authCalls) < MaxAuthCalls
    /\ authError' = ""
    /\ loading' = TRUE
    /\ authCalls' = authCalls \cup
          {[kind |-> IF isLogin THEN "signInWithPassword" ELSE "signUp",
            live |-> TRUE]}
    /\ authOutcome' = "none"
    /\ UNCHANGED <<expenses, budgets, savingsGoals, user, result, offAuth>>
    /\ UNCHANGED <<activePage, isLogin>>

\* the call returned no error: onClose(), then finally
AuthCallSucceeds(c) ==
    /\ c \in authCalls
    /\ authCalls' = authCalls \ {c}
    /\ authOutcome' = "onClose"
    /\ loading' = IF c.live THEN FALSE ELSE loading
    /\ UNCHANGED <<expenses, budgets, savingsGoals, user, result, offAuth>>
    /\ UNCHANGED <<activePage, isLogin, authError>>

ErrorShown_NoFallback(message) == message

ErrorShown(message) == IF message # "" THEN message ELSE "An error occurred"

\* the call returned an error: catch, then finally
AuthCallFails(c, message) ==
    /\ c \in authCalls
    /\ authCalls' = authCalls \ {c}
    /\ authOutcome' = "error"
    /\ authError' = IF c.live THEN ErrorShown(message) ELSE authError
    /\ loading' = IF c.live THEN FALSE ELSE loading
    /\ UNCHANGED <<expenses, budgets, savingsGoals, user, result, offAuth>>
    /\ UNCHANGED <<activePage, isLogin>>

CallRenderActivePage(name) ==
    /\ result' = [op |-> "renderActivePage", arg |-> name,
                  val |-> renderActivePage(name)]
    /\ UNCHANGED <<expenses, budgets, savingsGoals, user, offAuth, authVars>>

NextAuth ==
    \/ handleLogout
    \/ \E session \in Sessions : onAuthStateChange(session)
    \/ \E page \in PageNames : setActivePage(page)
    \/ setIsLogin
    \/ AuthForm_handleSubmit
    \/ \E c \in authCalls : AuthCallSucceeds(c)
    \/ \E c \in authCalls, message \in ErrorMessages : AuthCallFails(c, message)
    \/ \E name \in PageArgs : CallRenderActivePage(name)

SpecAuth == InitAuth /\ [][NextAuth]_vars

\* C29: a record page is rendered only with a user; without a user the
\* authentication form is all that is rendered; with a user the page named
\* by activePage is rendered, and renderActivePage answers the expense list
\* for a name that is none of the four.
C29_RecordPagesOnlyWithUser ==
    /\ (AppContent \cap RecordPages # {} => user # NULL)
    /\ (user = NULL => AppContent = {"AuthForm"})
    /\ (user # NULL =>
          /\ "AuthForm" \notin AppContent
          /\ activePage = "expenses" => "ExpenseList" \in AppContent
          /\ activePage = "budget" => "BudgetOverview" \in AppContent
          /\ activePage = "savings" => "SavingsGoalList" \in AppContent
          /\ activePage = "insights" => "SpendingInsights" \in AppContent
          /\ Cardinality(AppContent \cap RecordPages) = 1)
    /\ (result.op = "renderActivePage" /\ result.arg \notin PageNames =>
          result.val = "ExpenseList")

\* a user signed out while on the budget page: only the form is rendered
C29_Witness ==
    /\ user = NULL
    /\ activePage = "budget"
    /\ AppContent = {"AuthForm"}

C29_WitnessSignedIn ==
    /\ user # NULL
    /\ activePage = "insights"
    /\ "SpendingInsights" \in AppContent

C29_WitnessUnknownName ==
    /\ result.op = "renderActivePage"
    /\ result.arg = "settings"
    /\ result.val = "ExpenseList"

LiveCalls == { c \in authCalls : c.live }

\* C30: a submit leaves the error empty and loading true with its call
\* in flight; loading is true exactly while the form's call is in flight, so
\* it is false again once the call has ended either way; onClose is invoked
\* only by a call that returned no error; a call that returned an error sets
\* a non-empty message and leaves the form mounted.
C30_AuthSubmitProtocol ==
    /\ [][AuthForm_handleSubmit =>
             /\ authError' = ""
             /\ loading'
             /\ LiveCalls' # {}]_vars
    /\ [](loading <=> LiveCalls # {})
    /\ [][(\E c \in LiveCalls : AuthCallSucceeds(c)) =>
             /\ ~loading'
             /\ authOutcome' = "onClose"]_vars
    /\ [][(\E c \in LiveCalls, message \in ErrorMessages : AuthCallFails(c, message)) =>
             /\ ~loading'
             /\ authOutcome' = "error"
             /\ authError' # ""
             /\ AuthFormMounted']_vars
    /\ [][(authOutcome' = "onClose" /\ authOutcome # "onClose") =>
             \E c \in authCalls : AuthCallSucceeds(c)]_vars

\* a failed submit: the message is shown, loading is over, the form is there
C30_Witness ==
    /\ authOutcome = "error"
    /\ authError = "An error occurred"
    /\ ~loading
    /\ AuthFormMounted

C30_WitnessClosed ==
    /\ authOutcome = "onClose"
    /\ authError = ""
    /\ ~loading

=============================================================================
